---- MODULE Spec2Model ----
(***************************************************************************)
(* Verification model of the text-to-SQL service: the vectorization job    *)
(* pipeline (services/vectorization_service.py over the SQLAlchemy         *)
(* session scope of database/database.py), the semantic query cache       *)
(* (database/chroma_db.py, database/postgres_cache.py), the SQL safety    *)
(* validator and the service of agents/text_to_sql.py, the table analysis  *)
(* and auto-configuration of services/discovery_service.py, and the        *)
(* content generation of the pipeline (_generate_content).                 *)
(*                                                                         *)
(* Each subsystem has its own specification (SpecJobs, SpecCache, ...);    *)
(* the variables of the other subsystems stay at their idle values.        *)
(* SpecJobsFair is SpecJobs under a fair scheduler, for liveness.          *)
(***************************************************************************)
EXTENDS Integers, Sequences, FiniteSets, TLC

VARIABLES
    jobs,       \* vectorization_jobs table, committed rows: job id -> row
    next_id,    \* the table's autoincrement sequence
    sess,       \* per worker: the job row written (flushed) by its open session, not committed
    pc,         \* per worker: position inside the service call it is executing
    loc,        \* per worker: local variables of the call, and what it returns
    calls,      \* calls made so far that write job rows
    vstore,     \* vector store: table collection -> set of record ids stored
    \* ---- the ChromaDB query cache (ChromaCache) ----
    heartbeat,          \* what the constructor's connection test of the server gave
    backend,            \* self.client: which client the object uses
    persist_directory,  \* the attribute self.persist_directory
    collection,         \* self.collection: the handle (collection id) the object holds
    store,              \* the store's collection named sql_queries: its id and entries
    next_uuid,          \* ids the store has handed out to collections
    cpc,                \* per worker: position inside the cache call
    cloc,               \* per worker: locals of the cache call, and what it returns
    \* ---- the PostgreSQL query cache (PostgresCache) ----
    query_cache,        \* the rows of table query_cache, in the order SELECT returns them
    pg_ret,             \* the last call on the cache: its arguments and what it returned
    \* ---- the SQL validator (SQLValidator) ----
    sql_in,             \* the raw text given to validate_and_clean_sql, as characters
    readonly,           \* its readonly argument
    sql_out,            \* what it returned, as characters
    \* ---- the text-to-SQL service behind the endpoints (TextToSQLService) ----
    target_db,          \* self.target_db: "connected", or "none" when there is none
    areq,               \* the last request handled: endpoint and payload
    aresp,              \* the answer it got
    db_run,             \* the string that request gave to target_db.run, if any
    answered,           \* history: the <<vector, readonly>> of the requests whose
                        \* generated SQL was returned as valid and cached
    \* ---- schema discovery (DatabaseDiscoveryService) ----
    inspected,          \* what the inspector and the row estimate report of a table
    table_info,         \* what _analyze_table returned for it
    configured,         \* what auto_configure_table did for it
    \* ---- content generation of the pipeline (_generate_content) ----
    content_in,         \* the strategy, the column configs and the record given
    content_out         \* what the call gave back

jobVars == <<jobs, next_id, sess, pc, loc, calls, vstore>>
cacheVars == <<heartbeat, backend, persist_directory, collection, store, next_uuid, cpc, cloc>>

pgVars == <<query_cache, pg_ret>>

sqlVars == <<sql_in, readonly, sql_out>>

agentVars == <<target_db, areq, aresp, db_run, answered>>

discoveryVars == <<inspected, table_info, configured>>

contentVars == <<content_in, content_out>>

vars == <<jobVars, cacheVars, pgVars, sqlVars, agentVars, discoveryVars, contentVars>>
notJobVars == <<cacheVars, pgVars, sqlVars, agentVars, discoveryVars, contentVars>>
notCacheVars == <<jobVars, pgVars, sqlVars, agentVars, discoveryVars, contentVars>>
notPgVars == <<jobVars, cacheVars, sqlVars, agentVars, discoveryVars, contentVars>>
notSqlVars == <<jobVars, cacheVars, pgVars, agentVars, discoveryVars, contentVars>>
notDiscoveryVars == <<jobVars, cacheVars, pgVars, sqlVars, agentVars, contentVars>>
notContentVars == <<jobVars, cacheVars, pgVars, sqlVars, agentVars, discoveryVars>>
\* The service writes the cache's entries and nothing else outside itself.
notAgentVars == <<jobVars, pgVars, sqlVars, discoveryVars, contentVars, heartbeat, backend, persist_directory,
                  collection, next_uuid, cpc, cloc>>

(***************************************************************************)
(* Bounds of the model.                                                    *)
(***************************************************************************)
MaxCalls == 3           \* calls that write job rows (a start that inserts, a process)
batch_size == 2         \* VectorizationService.batch_size (50 in the source), scaled down
NumRows == 3            \* rows of the source table of table config 1

Workers == {"w1", "w2"} \* concurrent request threads / worker invocations
JobIds == 1..MaxCalls

(***************************************************************************)
(* Metadata rows that the job pipeline only reads.                         *)
(*   table config 1: enabled, one vectorizable column, NumRows rows        *)
(*   table config 2: enabled, no column with should_vectorize              *)
(*   table config 3: disabled                                              *)
(*   id 4: no such table config                                            *)
(***************************************************************************)
TableConfigIds == {1, 2, 3}
StartArgs == {1, 2, 3, 4}

is_enabled(tc) == tc \in {1, 2}
table_name(tc) ==
    IF tc = 1 THEN <<"d", "o", "c", "s">>
    ELSE IF tc = 2 THEN <<"1", "_", "d", "o", "c", "s">>
    ELSE <<"o", "l", "d">>
vectorizable_columns(tc) == IF tc = 1 THEN 1 ELSE 0

\* The attributes class TableConfig maps (models/table_config.py lines 26-58);
\* reading any other attribute of a TableConfig row raises AttributeError.
TableConfigAttributes ==
    {"id", "database_connection_id", "table_name", "schema_name",
     "vectorization_strategy", "batch_size", "chunk_size",
     "chromadb_collection_name", "embedding_model", "is_enabled", "auto_update",
     "update_frequency", "processing_config", "created_at", "updated_at",
     "created_by", "database_connection", "column_configs", "vectorization_jobs"}
HasAttribute(name) == name \in TableConfigAttributes

\* The source table: row i has primary key i; the last row's column value is NULL,
\* so that _generate_content returns "" for it.
SourceRows(tc) ==
    IF tc = 1
    THEN [i \in 1..NumRows |-> [pk |-> i, has_content |-> (i < NumRows)]]
    ELSE << >>

\* str(n) of a non-negative integer, as an f-string formats it.
DecimalDigit == <<"0", "1", "2", "3", "4", "5", "6", "7", "8", "9">>
RECURSIVE Decimal(_)
Decimal(n) ==
    IF n < 10 THEN <<DecimalDigit[n + 1]>>
    ELSE Decimal(n \div 10) \o <<DecimalDigit[(n % 10) + 1]>>

\* A collection name that is numbered by the job instead of the table config.
CollectionName_PerJob(tc) ==
    <<"t", "a", "b", "l", "e", "_">> \o Decimal(next_id) \o <<"_">> \o table_name(tc)

\* f"table_{table_config_id}_{table_config.table_name}"
CollectionName(tc) ==
    <<"t", "a", "b", "l", "e", "_">> \o Decimal(tc) \o <<"_">> \o table_name(tc)

Statuses == {"pending", "in_progress", "completed", "failed", "cancelled"}
Active == {"pending", "in_progress"}
Terminal == {"completed", "failed", "cancelled"}

NoError == "none"
NoRow == [table_config_id |-> 0, status |-> "absent",
          progress_num |-> 0, progress_den |-> 1,
          total_rows |-> 0, processed_rows |-> 0,
          successful_rows |-> 0, failed_rows |-> 0,
          error_message |-> NoError, collection |-> << >>]

\* VectorizationJob(...) as start_vectorization_job builds it, column defaults applied.
NewJob(tc) == [table_config_id |-> tc, status |-> "pending",
               progress_num |-> 0, progress_den |-> 1,
               total_rows |-> 0, processed_rows |-> 0,
               successful_rows |-> 0, failed_rows |-> 0,
               error_message |-> NoError, collection |-> CollectionName(tc)]

\* A session of the service writes at most one job row: the one it inserts or the
\* one it processes.
NoSess == [job |-> 0, row |-> NoRow]
NoLoc == [op |-> "none", table_config_id |-> 0, job_id |-> 0,
          total_rows_seen |-> 0, total_processed |-> 0,
          successful |-> 0, failed |-> 0, offset |-> 0, err |-> NoError,
          outcome |-> "none", row |-> NoRow]

\* The locals of a call that has returned: its arguments and what it returned (an
\* outcome and, for get_job_status and start_vectorization_job, the row it read
\* or created).
Return(op, tc, j, outcome, row) ==
    [NoLoc EXCEPT !.op = op, !.table_config_id = tc, !.job_id = j,
                  !.outcome = outcome, !.row = row]

\* A row of another session's open transaction holds the row lock.
LockedByOther(w, j) == \E v \in Workers \ {w} : sess[v].job = j /\ jobs[j] # NoRow

\* What a query of worker w's session sees of job j (read committed + own writes).
View(w, j) == IF sess[w].job = j THEN sess[w].row ELSE jobs[j]

\* session_scope: commit on normal exit.
Commit(w) == [j \in JobIds |-> View(w, j)]

JobsInit ==
    /\ jobs = [j \in JobIds |-> NoRow]
    /\ next_id = 1
    /\ sess = [w \in Workers |-> NoSess]
    /\ pc = [w \in Workers |-> "idle"]
    /\ loc = [w \in Workers |-> NoLoc]
    /\ calls = 0
    /\ vstore = [tc \in TableConfigIds |-> {}]

Min(a, b) == IF a < b THEN a ELSE b

\* A call's answer is delivered (Respond) before any other step is taken: Respond
\* touches only the returning worker's own locals, so it commutes with every step
\* of the others, and taking it first loses no behaviour of the rows.
Quiet == \A w \in Workers : pc[w] # "returned"

(***************************************************************************)
(* start_vectorization_job                                                 *)
(***************************************************************************)
\* The existing-job query of the session: committed rows and the session's own.
ExistingJob(w, tc) ==
    \E j \in JobIds : View(w, j).table_config_id = tc /\ View(w, j).status \in Active

\* A start that does not look at the answer of the existing-job query.
StartGuard_NoCheck(w, tc) == FALSE

\* What the call does with the answer of the existing-job query (lines 68-69).
StartGuard(w, tc) == ExistingJob(w, tc)

\* Lines 52-80: the two lookups, the check and the INSERT flushed in the session.
\* A raise leaves the with-block: session_scope rolls back and the error reaches
\* the caller.
StartQuery(w, tc) ==
    /\ Quiet
    /\ pc[w] = "idle"
    /\ IF tc \notin TableConfigIds \/ ~is_enabled(tc) \/ StartGuard(w, tc)
       THEN /\ loc' = [loc EXCEPT ![w] =
                        Return("start", tc, 0,
                               IF tc \notin TableConfigIds THEN "not_found"
                               ELSE IF ~is_enabled(tc) THEN "disabled"
                               ELSE "already_running", NoRow)]
            /\ pc' = [pc EXCEPT ![w] = "returned"]
            /\ UNCHANGED <<jobs, next_id, sess, calls, vstore, notJobVars>>
       ELSE /\ calls < MaxCalls
            /\ calls' = calls + 1
            /\ sess' = [sess EXCEPT ![w] = [job |-> next_id, row |-> NewJob(tc)]]
            /\ loc' = [loc EXCEPT ![w] = [NoLoc EXCEPT !.op = "start",
                                                        !.table_config_id = tc,
                                                        !.job_id = next_id]]
            /\ next_id' = next_id + 1
            /\ pc' = [pc EXCEPT ![w] = "start_commit"]
            /\ UNCHANGED <<jobs, vstore, notJobVars>>

\* Line 83 and the exit of the with-block: session.commit().
StartCommit(w) ==
    /\ Quiet
    /\ pc[w] = "start_commit"
    /\ jobs' = Commit(w)
    /\ sess' = [sess EXCEPT ![w] = NoSess]
    /\ loc' = [loc EXCEPT ![w] =
                 Return("start", loc[w].table_config_id, loc[w].job_id, "created",
                        sess[w].row)]
    /\ pc' = [pc EXCEPT ![w] = "returned"]
    /\ UNCHANGED <<next_id, calls, vstore, notJobVars>>

(***************************************************************************)
(* process_vectorization_job                                               *)
(***************************************************************************)
\* Lines 96-103: the job is loaded into the session. A job id with no row raises
\* inside the try; the handler finds no row either and the call returns False.
\* (The job's table config always exists: table_config_id is a foreign key.)
ProcLoad(w, j) ==
    /\ Quiet
    /\ pc[w] = "idle"
    /\ IF jobs[j] = NoRow
       THEN /\ loc' = [loc EXCEPT ![w] = Return("process", 0, j, "false", NoRow)]
            /\ pc' = [pc EXCEPT ![w] = "returned"]
            /\ UNCHANGED calls
       ELSE /\ calls < MaxCalls
            /\ calls' = calls + 1
            /\ loc' = [loc EXCEPT ![w] = [NoLoc EXCEPT !.op = "process",
                                           !.job_id = j,
                                           !.total_rows_seen = jobs[j].total_rows]]
            /\ pc' = [pc EXCEPT ![w] = "proc_mark"]
    /\ UNCHANGED <<jobs, next_id, sess, vstore, notJobVars>>

\* The status a job must have for process_vectorization_job to take it:
\* the code has no such test (lines 97-106).
ProcessGuard(row) == TRUE

\* _process_table, lines 188-190: with no vectorizable column it returns
\* (0, 0, 0) and the job goes on to completion.
NoColumns_Raise == "proc_rollback"
NoColumns == "proc_complete"

\* Lines 105-115 and 176-195: status IN_PROGRESS is flushed (an UPDATE inside the
\* session's transaction, which blocks while another transaction holds the row),
\* then the connection is checked, the vectorizable columns are read and the
\* collection is ensured.
ProcMarkInProgress(w) ==
    LET j == loc[w].job_id
        tc == jobs[j].table_config_id
    IN  /\ Quiet
        /\ pc[w] = "proc_mark"
        /\ ProcessGuard(jobs[j])
        /\ ~LockedByOther(w, j)
        /\ sess' = [sess EXCEPT ![w] = [job |-> j,
                                         row |-> [jobs[j] EXCEPT !.status = "in_progress"]]]
        /\ \E setup \in {"ok", "no_connection", "collection_error"} :
              IF setup = "no_connection"
              THEN /\ loc' = [loc EXCEPT ![w].err = "error"]
                   /\ pc' = [pc EXCEPT ![w] = "proc_rollback"]
              ELSE IF vectorizable_columns(tc) = 0
              THEN /\ pc' = [pc EXCEPT ![w] = NoColumns]
                   /\ UNCHANGED loc
              ELSE IF setup = "collection_error"
              THEN /\ loc' = [loc EXCEPT ![w].err = "error"]
                   /\ pc' = [pc EXCEPT ![w] = "proc_rollback"]
              ELSE /\ pc' = [pc EXCEPT ![w] = "proc_batch"]
                   /\ UNCHANGED loc
        /\ UNCHANGED <<jobs, next_id, calls, vstore, notJobVars>>

\* _get_table_batches, lines 262-281: LIMIT batch_size OFFSET offset, ordered by pk.
Page(tc, offset) ==
    SubSeq(SourceRows(tc), offset + 1, Min(offset + batch_size, Len(SourceRows(tc))))

\* _process_batch, lines 302-341: (successful, failed, ids stored) of one batch.
\* A record with empty content is failed, and so is one whose preparation raises
\* (_generate_metadata and _generate_record_id read table_config.primary_key_column,
\* lines 421 and 446); the others are stored together and all succeed or all fail
\* with the store call.
ProcessBatch(tc, page, store_ok) ==
    LET prepared == {i \in 1..Len(page) :
                        page[i].has_content /\ HasAttribute("primary_key_column")}
        unprepared == Len(page) - Cardinality(prepared)
        ids == {<<table_name(tc), page[i].pk>> : i \in prepared}
    IN  IF prepared = {} THEN [successful |-> 0, failed |-> unprepared, ids |-> {}]
        ELSE IF store_ok
        THEN [successful |-> Cardinality(prepared), failed |-> unprepared, ids |-> ids]
        ELSE [successful |-> 0, failed |-> unprepared + Cardinality(prepared), ids |-> {}]

\* Lines 206-212: the job object's counters after a batch, flushed.
BatchProgress(row, l, total_processed, successful, failed) ==
    [row EXCEPT !.processed_rows = total_processed,
                !.successful_rows = successful,
                !.failed_rows = failed,
                !.progress_num = IF l.total_rows_seen > 0 THEN total_processed * 100 ELSE @,
                !.progress_den = IF l.total_rows_seen > 0 THEN l.total_rows_seen ELSE @]

\* One turn of the loop of _process_table (lines 198-214): the next page is
\* fetched; a failing fetch raises out of the with-block, an empty page ends the
\* loop, any other page is processed and the counts are flushed.  The generator
\* _get_table_batches builds its query before the first page and reads
\* table_config.primary_key_column for it (lines 242, 259), table_config.
\* metadata_columns (line 246) and table_config.where_clause (line 255).
ProcBatch(w) ==
    LET j == loc[w].job_id
        tc == jobs[j].table_config_id
        page == Page(tc, loc[w].offset)
    IN  /\ Quiet
        /\ pc[w] = "proc_batch"
        /\ \E fetch_ok \in BOOLEAN, store_ok \in BOOLEAN :
              IF ~HasAttribute("primary_key_column")
              THEN /\ loc' = [loc EXCEPT ![w].err = "AttributeError"]
                   /\ pc' = [pc EXCEPT ![w] = "proc_rollback"]
                   /\ UNCHANGED <<sess, vstore>>
              ELSE IF ~fetch_ok
              THEN /\ loc' = [loc EXCEPT ![w].err = "error"]
                   /\ pc' = [pc EXCEPT ![w] = "proc_rollback"]
                   /\ UNCHANGED <<sess, vstore>>
              ELSE IF page = << >>
              THEN /\ pc' = [pc EXCEPT ![w] = "proc_complete"]
                   /\ UNCHANGED <<sess, loc, vstore>>
              ELSE LET b == ProcessBatch(tc, page, store_ok)
                       l == [loc[w] EXCEPT
                               !.total_processed = @ + Len(page),
                               !.successful = @ + b.successful,
                               !.failed = @ + b.failed,
                               !.offset = @ + Len(page)]
                   IN  /\ loc' = [loc EXCEPT ![w] = l]
                       /\ sess' = [sess EXCEPT ![w].row =
                                     BatchProgress(@, l, l.total_processed,
                                                   l.successful, l.failed)]
                       /\ vstore' = [vstore EXCEPT ![tc] = @ \cup b.ids]
                       /\ UNCHANGED pc
        /\ UNCHANGED <<jobs, next_id, calls, notJobVars>>

\* Lines 122-129: the job object's fields at completion.
Completed(row, l) ==
    [row EXCEPT !.status = "completed",
                !.total_rows = l.total_processed,
                !.processed_rows = l.total_processed,
                !.successful_rows = l.successful,
                !.failed_rows = l.failed,
                !.progress_num = 100,
                !.progress_den = 1]

\* Lines 122-137 and the exit of the with-block: completion is flushed and the
\* session commits.
ProcComplete(w) ==
    LET j == loc[w].job_id
        tc == jobs[j].table_config_id
    IN  /\ Quiet
        /\ pc[w] = "proc_complete"
        /\ jobs' = [jobs EXCEPT ![j] = Completed(sess[w].row, loc[w])]
        /\ sess' = [sess EXCEPT ![w] = NoSess]
        /\ loc' = [loc EXCEPT ![w].outcome = "true"]
        /\ pc' = [pc EXCEPT ![w] = "returned"]
        /\ UNCHANGED <<next_id, calls, vstore, notJobVars>>

\* session_scope, lines 96-98: what the session's flushed rows become when the
\* with-block is left by an exception.
Rollback(w) == NoSess

\* The exception leaves the with-block of line 96.
ProcRollback(w) ==
    /\ Quiet
    /\ pc[w] = "proc_rollback"
    /\ sess' = [sess EXCEPT ![w] = Rollback(w)]
    /\ pc' = [pc EXCEPT ![w] = "proc_except"]
    /\ UNCHANGED <<jobs, next_id, loc, calls, vstore, notJobVars>>

\* An exception handler that leaves the job row as the rollback left it.
MarkFailed_NoUpdate(row, err) == row

\* Lines 144-147: the handler's update of the job.
MarkFailed(row, err) == [row EXCEPT !.status = "failed", !.error_message = err]

\* Lines 139-151: a second session marks the job failed and commits.
ProcMarkFailed(w) ==
    LET j == loc[w].job_id
    IN  /\ Quiet
        /\ pc[w] = "proc_except"
        /\ ~LockedByOther(w, j)
        /\ jobs' = [jobs EXCEPT ![j] = MarkFailed(Commit(w)[j], loc[w].err)]
        /\ sess' = [sess EXCEPT ![w] = NoSess]
        /\ loc' = [loc EXCEPT ![w].outcome = "false"]
        /\ pc' = [pc EXCEPT ![w] = "returned"]
        /\ UNCHANGED <<next_id, calls, vstore, notJobVars>>

(***************************************************************************)
(* get_job_status, lines 599-616: a session of its own reads the row.      *)
(***************************************************************************)
StatusRow(w, j) == View(w, j)

GetJobStatus(w, j) ==
    /\ Quiet
    /\ pc[w] = "idle"
    /\ loc' = [loc EXCEPT ![w] =
                 Return("status", 0, j,
                        IF StatusRow(w, j) = NoRow THEN "none" ELSE "found",
                        StatusRow(w, j))]
    /\ pc' = [pc EXCEPT ![w] = "returned"]
    /\ UNCHANGED <<jobs, next_id, sess, calls, vstore, notJobVars>>

(***************************************************************************)
(* The endpoint answers the request with what the service call returned    *)
(* and the thread is free for the next request.                            *)
(***************************************************************************)
Respond(w) ==
    /\ pc[w] = "returned"
    /\ pc' = [pc EXCEPT ![w] = "idle"]
    /\ loc' = [loc EXCEPT ![w] = NoLoc]
    /\ UNCHANGED <<jobs, next_id, sess, calls, vstore, notJobVars>>

(***************************************************************************)
(* External cancellation: the job row is marked cancelled by a collaborator *)
(* (no code of the repository does it).                                    *)
(***************************************************************************)
Cancel(j) ==
    /\ Quiet
    /\ jobs[j].status \in Active
    /\ \A w \in Workers : sess[w].job # j
    /\ jobs' = [jobs EXCEPT ![j].status = "cancelled"]
    /\ UNCHANGED <<next_id, sess, pc, loc, calls, vstore, notJobVars>>

NextJobs ==
    \/ \E w \in Workers, tc \in StartArgs : StartQuery(w, tc)
    \/ \E w \in Workers : StartCommit(w)
    \/ \E w \in Workers, j \in JobIds : ProcLoad(w, j)
    \/ \E w \in Workers : ProcMarkInProgress(w)
    \/ \E w \in Workers : ProcBatch(w)
    \/ \E w \in Workers : ProcComplete(w)
    \/ \E w \in Workers : ProcRollback(w)
    \/ \E w \in Workers : ProcMarkFailed(w)
    \/ \E w \in Workers, j \in JobIds : GetJobStatus(w, j)
    \/ \E w \in Workers : Respond(w)
    \/ \E j \in JobIds : Cancel(j)

(***************************************************************************)
(* The ChromaDB query cache, database/chroma_db.py.  One ChromaCache object *)
(* is shared by the request threads.                                       *)
(***************************************************************************)
MaxEntries == 2         \* entries a collection holds
MaxClears == 2          \* collections created by clear_cache

\* Embedding vectors (two dimensions, integer coordinates, integer norms).
Vectors == {<<0, 0>>, <<1, 0>>, <<0, 1>>, <<-1, 0>>, <<3, 4>>}
\* The questions asked, the embedding the embedding model gives each, and the SQL
\* generated for it: process_question caches <<question, SQL, embedding>>.
Questions == {"zero", "east", "north", "west", "diag"}
_generate_embedding(q) ==
    CASE q = "zero" -> <<0, 0>>
      [] q = "east" -> <<1, 0>>
      [] q = "north" -> <<0, 1>>
      [] q = "west" -> <<-1, 0>>
      [] q = "diag" -> <<3, 4>>
GeneratedSql(q) == <<"SELECT", q>>
\* The (question, SQL) pairs given to add_to_cache: the SQL generated for the
\* question, and for one question also the SQL of a request that is not readonly.
CachePairs ==
    {<<q, GeneratedSql(q)>> : q \in {"east", "north", "diag"}}
        \cup {<<"east", <<"DELETE", "east">>>>}
\* The thresholds given to ChromaCache.find_similar_question: the configured
\* SIMILARITY_THRESHOLD and the exact-match boundary.
FindThresholds == {<<4, 5>>, <<1, 1>>}
\* Scores and thresholds are rationals <<numerator, denominator>>, denominator > 0.
Thresholds == {<<-1, 1>>, <<0, 1>>, <<4, 5>>, <<1, 1>>}
Geq(x, y) == x[1] * y[2] >= y[1] * x[2]
Gt(x, y) == x[1] * y[2] > y[1] * x[2]

Unset == "unset"        \* an attribute the object does not have
NoCollection == 0       \* no collection of that name in the store
NoneResult == [question |-> "none", sql |-> "none", score |-> <<0, 1>>]
NoId == <<0, 0>>
NoCLoc == [op |-> "none", handle |-> 0, outcome |-> "none",
           collection_missing |-> FALSE, result |-> NoneResult,
           total_entries |-> -1, collection_name |-> "none",
           doc_id |-> NoId, vector |-> << >>, threshold |-> << >>,
           success |-> "none", status_code |-> 0]
CReturn(op, outcome, missing, result) ==
    [NoCLoc EXCEPT !.op = op, !.outcome = outcome,
                   !.collection_missing = missing, !.result = result]

\* TextToSQLService.clear_cache, agents/text_to_sql.py lines 490-497: True after
\* the call on the cache, whatever it returned; False when the call raised.
ServiceClearCache(cache_outcome) == IF cache_outcome = "raised" THEN "false" ELSE "true"

\* The clear endpoint, api/server.py lines 566-570.
ClearEndpoint(success) == IF success = "true" THEN 200 ELSE 500

\* ChromaCache.clear_cache returned to the service, and the service to the endpoint.
ClearReturn(cache_outcome, missing) ==
    [CReturn("clear", cache_outcome, missing, NoneResult)
        EXCEPT !.success = ServiceClearCache(cache_outcome),
               !.status_code = ClearEndpoint(ServiceClearCache(cache_outcome))]

\* Lines 35-62: HttpClient when the client is built and the server answers the
\* heartbeat, else the PersistentClient.
ChosenClient(connected) == IF connected = "ok" THEN "http" ELSE "persistent"

\* __init__, lines 32-75: the client is chosen, only the fallback branch sets
\* self.persist_directory; then the collection is loaded or created.
Construct(connected) ==
    /\ heartbeat = connected
    /\ backend = ChosenClient(connected)
    /\ persist_directory =
          IF ChosenClient(connected) = "persistent" THEN "./chroma_data" ELSE Unset
    /\ store = [id |-> 1, entries |-> << >>]
    /\ collection = 1
    /\ next_uuid = 2
    /\ cpc = [w \in Workers |-> "idle"]
    /\ cloc = [w \in Workers |-> NoCLoc]

CacheInit == \E connected \in {"ok", "failed"} : Construct(connected)
CacheIdle == Construct("failed")

\* A cache that goes over to the local client when a call on the store fails.
ClientAfterFailure_Fallback(client) == "persistent"

\* The exception handlers of the calls (lines 117-119, 169-171, 237-239) print,
\* return or re-raise; none assigns self.client.
ClientAfterFailure(client) == client

CQuiet == \A w \in Workers : cpc[w] # "returned"

\* A call on a collection handle reaches the store's collection only while the
\* store still has the collection of that id.
Missing(handle) == store.id = NoCollection \/ store.id # handle

\* self.collection is read (lines 99, 137) before the request goes to the store.
CacheRead(w, op) ==
    /\ CQuiet
    /\ cpc[w] = "idle"
    /\ cloc' = [cloc EXCEPT ![w] = [NoCLoc EXCEPT !.op = op, !.handle = collection]]
    /\ cpc' = [cpc EXCEPT ![w] = op]
    /\ UNCHANGED <<heartbeat, backend, persist_directory, collection, store, next_uuid, notCacheVars>>

\* uuid.uuid4(), line 93: an id that no entry of any collection has had (the
\* store's collection ids are never reused, and entries are never removed singly).
uuid4_Fixed(st) == <<1, 1>>
uuid4(st) == <<st.id, Len(st.entries) + 1>>

\* The entry collection.add stores (lines 104-112).
NewEntry(doc_id, q, sql_query, v) ==
    [id |-> doc_id, document |-> q, sql_query |-> sql_query, embedding |-> v]

\* collection.add: an id the collection holds already is not added again.
CollectionAdd(entries, e) ==
    IF \E k \in 1..Len(entries) : entries[k].id = e.id
    THEN entries
    ELSE Append(entries, e)

\* Lines 117-119: an exception of the store is re-raised to the caller.
AddExcept_Swallowed == "none"
AddExcept == "raised"

\* add_to_cache, lines 91-119: collection.add, and the id is returned.
AddToCache(w, q, sql_query) ==
    /\ CQuiet
    /\ cpc[w] = "add"
    /\ IF Missing(cloc[w].handle)
       THEN /\ cloc' = [cloc EXCEPT ![w] = CReturn("add", AddExcept, TRUE, NoneResult)]
            /\ UNCHANGED store
       ELSE /\ Len(store.entries) < MaxEntries
            /\ store' = [store EXCEPT !.entries =
                           CollectionAdd(@, NewEntry(uuid4(store), q, sql_query,
                                                    _generate_embedding(q)))]
            /\ cloc' = [cloc EXCEPT ![w] =
                          [CReturn("add", "doc_id", FALSE, NoneResult)
                             EXCEPT !.doc_id = uuid4(store)]]
    /\ backend' = IF Missing(cloc[w].handle) THEN ClientAfterFailure(backend) ELSE backend
    /\ cpc' = [cpc EXCEPT ![w] = "returned"]
    /\ UNCHANGED <<heartbeat, persist_directory, collection, next_uuid, notCacheVars>>

\* The collections are created without "hnsw:space" (lines 71-74, 229-232), so
\* the store's distance is the default one, squared L2.
Distance(a, b) == (a[1] - b[1]) * (a[1] - b[1]) + (a[2] - b[2]) * (a[2] - b[2])

\* collection.query(n_results=1): the entries at the least distance.
Nearest(entries, v) ==
    {i \in 1..Len(entries) :
        \A k \in 1..Len(entries) :
            Distance(entries[i].embedding, v) <= Distance(entries[k].embedding, v)}

\* Line 156.
SimilarityScore(distance) == <<1 - distance, 1>>

\* Line 158.
Accepts(score, threshold) == Geq(score, threshold)

\* Lines 147-167 on the answer of the store for entry i.
ChromaMatch(entries, i, v, threshold) ==
    LET score == SimilarityScore(Distance(entries[i].embedding, v))
    IN  IF Accepts(score, threshold)
        THEN [question |-> entries[i].document, sql |-> entries[i].sql_query,
              score |-> score]
        ELSE NoneResult

\* Lines 169-171: any exception of the lookup is turned into None.
FindExcept_Raised == "raised"
FindExcept == "none"

\* What find_similar_question returned, for the arguments it was given.
FReturn(outcome, missing, result, v, threshold) ==
    [CReturn("find", outcome, missing, result)
       EXCEPT !.vector = v, !.threshold = threshold]

\* find_similar_question, lines 132-171.
FindSimilarQuestion(w, v, threshold) ==
    /\ CQuiet
    /\ cpc[w] = "find"
    /\ IF Missing(cloc[w].handle)
       THEN cloc' = [cloc EXCEPT ![w] = FReturn(FindExcept, TRUE, NoneResult, v, threshold)]
       ELSE IF store.entries = << >>
       THEN cloc' = [cloc EXCEPT ![w] = FReturn("none", FALSE, NoneResult, v, threshold)]
       ELSE \E i \in Nearest(store.entries, v) :
              LET m == ChromaMatch(store.entries, i, v, threshold)
              IN  cloc' = [cloc EXCEPT ![w] =
                             FReturn(IF m = NoneResult THEN "none" ELSE "match",
                                     FALSE, m, v, threshold)]
    /\ backend' = IF Missing(cloc[w].handle) THEN ClientAfterFailure(backend) ELSE backend
    /\ cpc' = [cpc EXCEPT ![w] = "returned"]
    /\ UNCHANGED <<heartbeat, persist_directory, collection, store, next_uuid, notCacheVars>>

\* clear_cache, line 225: delete_collection by name; it raises when the store has
\* no collection of that name, and the call returns False (lines 237-239).
ClearDelete(w) ==
    /\ CQuiet
    /\ cpc[w] = "idle"
    /\ next_uuid <= MaxClears + 1
    /\ IF store.id = NoCollection
       THEN /\ cloc' = [cloc EXCEPT ![w] = ClearReturn("false", TRUE)]
            /\ cpc' = [cpc EXCEPT ![w] = "returned"]
            /\ UNCHANGED store
       ELSE /\ store' = [id |-> NoCollection, entries |-> << >>]
            /\ cloc' = [cloc EXCEPT ![w] = [NoCLoc EXCEPT !.op = "clear"]]
            /\ cpc' = [cpc EXCEPT ![w] = "clear_create"]
    /\ UNCHANGED <<heartbeat, backend, persist_directory, collection, next_uuid, notCacheVars>>

\* Lines 229-232, the call: create_collection; it raises when the name is taken.
ClearCreate(w) ==
    /\ CQuiet
    /\ cpc[w] = "clear_create"
    /\ IF store.id # NoCollection
       THEN /\ cloc' = [cloc EXCEPT ![w] = ClearReturn("false", FALSE)]
            /\ cpc' = [cpc EXCEPT ![w] = "returned"]
            /\ UNCHANGED <<store, next_uuid>>
       ELSE /\ store' = [id |-> next_uuid, entries |-> << >>]
            /\ next_uuid' = next_uuid + 1
            /\ cloc' = [cloc EXCEPT ![w].handle = next_uuid]
            /\ cpc' = [cpc EXCEPT ![w] = "clear_assign"]
    /\ UNCHANGED <<heartbeat, backend, persist_directory, collection, notCacheVars>>

\* Lines 229-235, the assignment to self.collection, and return True.
ClearAssign(w) ==
    /\ CQuiet
    /\ cpc[w] = "clear_assign"
    /\ collection' = cloc[w].handle
    /\ cloc' = [cloc EXCEPT ![w] = ClearReturn("true", FALSE)]
    /\ cpc' = [cpc EXCEPT ![w] = "returned"]
    /\ UNCHANGED <<heartbeat, backend, persist_directory, store, next_uuid, notCacheVars>>

\* The dictionary get_cache_stats builds (lines 185-189, 193-198); reading an
\* attribute the object does not have raises AttributeError.
StatsDict(total, outcome) ==
    IF persist_directory = Unset
    THEN CReturn("stats", "raised", FALSE, NoneResult)
    ELSE [CReturn("stats", outcome, FALSE, NoneResult)
            EXCEPT !.total_entries = total, !.collection_name = "sql_queries"]

\* get_cache_stats, lines 180-198: the try block, and on any exception of it the
\* handler, whose own exception reaches the caller.
StatsTry(handle) ==
    IF Missing(handle)
    THEN CReturn("stats", "raised", TRUE, NoneResult)
    ELSE StatsDict(Len(store.entries), "dict")

GetCacheStats(w) ==
    /\ CQuiet
    /\ cpc[w] = "idle"
    /\ cloc' = [cloc EXCEPT ![w] =
                  IF StatsTry(collection).outcome = "raised"
                  THEN [StatsDict(0, "dict_with_error")
                          EXCEPT !.collection_missing = Missing(collection)]
                  ELSE StatsTry(collection)]
    /\ cpc' = [cpc EXCEPT ![w] = "returned"]
    /\ UNCHANGED <<heartbeat, backend, persist_directory, collection, store, next_uuid, notCacheVars>>

\* The caller has the answer (or the exception) and the thread is free again.
CacheRespond(w) ==
    /\ cpc[w] = "returned"
    /\ cpc' = [cpc EXCEPT ![w] = "idle"]
    /\ cloc' = [cloc EXCEPT ![w] = NoCLoc]
    /\ UNCHANGED <<heartbeat, backend, persist_directory, collection, store, next_uuid, notCacheVars>>

NextCache ==
    \/ \E w \in Workers, op \in {"add", "find"} : CacheRead(w, op)
    \/ \E w \in Workers, p \in CachePairs : AddToCache(w, p[1], p[2])
    \/ \E w \in Workers, v \in Vectors, t \in FindThresholds : FindSimilarQuestion(w, v, t)
    \/ \E w \in Workers : ClearDelete(w)
    \/ \E w \in Workers : ClearCreate(w)
    \/ \E w \in Workers : ClearAssign(w)
    \/ \E w \in Workers : GetCacheStats(w)
    \/ \E w \in Workers : CacheRespond(w)

(***************************************************************************)
(* The PostgreSQL query cache, database/postgres_cache.py.  The connection *)
(* is in autocommit mode and every call is one statement.                  *)
(***************************************************************************)
MaxRows == 2            \* rows of table query_cache

None == << >>           \* threshold=None: the argument is not given
ThresholdArgs == Thresholds \cup {None}
NoPgRet == [op |-> "none", vector |-> <<0, 0>>, threshold |-> None,
            outcome |-> "none", result |-> NoneResult]

\* A connected cache whose table create_cache_table (lines 36-55) has just made.
\* (connect, line 27, reads settings.postgres_uri: the settings object must
\* have it.)
PgInit ==
    /\ query_cache = << >>
    /\ pg_ret = NoPgRet

\* add_to_cache, lines 79-94: one INSERT.
PgAddToCache(q) ==
    /\ Len(query_cache) < MaxRows
    /\ query_cache' = Append(query_cache,
                             [natural_question |-> q, sql_query |-> GeneratedSql(q),
                              question_vector |-> _generate_embedding(q)])
    /\ pg_ret' = [NoPgRet EXCEPT !.op = "add", !.vector = _generate_embedding(q)]
    /\ UNCHANGED notPgVars

\* utils/vector.py: np.dot and np.linalg.norm.
Dot(a, b) == a[1] * b[1] + a[2] * b[2]
Magnitude(v) == CHOOSE n \in 0..Dot(v, v) : n * n = Dot(v, v)

\* cosine_similarity, utils/vector.py lines 21-38.
cosine_similarity(vector1, vector2) ==
    IF Magnitude(vector1) = 0 \/ Magnitude(vector2) = 0
    THEN <<0, 1>>
    ELSE <<Dot(vector1, vector2), Magnitude(vector1) * Magnitude(vector2)>>

\* Lines 125-138: the loop over the rows, from row i on, with the best so far.
RECURSIVE BestMatch(_, _, _, _, _, _)
BestMatch(rows, i, question_vector, threshold, best_match, best_similarity) ==
    IF i > Len(rows)
    THEN best_match
    ELSE LET similarity == cosine_similarity(question_vector, rows[i].question_vector)
         IN  IF Gt(similarity, best_similarity) /\ Geq(similarity, threshold)
             THEN BestMatch(rows, i + 1, question_vector, threshold,
                            [question |-> rows[i].natural_question,
                             sql |-> rows[i].sql_query, score |-> similarity],
                            similarity)
             ELSE BestMatch(rows, i + 1, question_vector, threshold,
                            best_match, best_similarity)

\* find_similar_question, lines 112-149.  Without a threshold the call reads
\* self.settings.similarity_threshold, an attribute that core/config.py Settings
\* does not have (it has SIMILARITY_THRESHOLD): AttributeError, outside the try.
PgFindSimilarQuestion(v, threshold) ==
    /\ pg_ret' =
          IF threshold = None
          THEN [NoPgRet EXCEPT !.op = "find", !.vector = v, !.outcome = "raised"]
          ELSE LET m == BestMatch(query_cache, 1, v, threshold, NoneResult, <<-1, 1>>)
               IN  [NoPgRet EXCEPT !.op = "find", !.vector = v, !.threshold = threshold,
                                   !.outcome = IF m = NoneResult THEN "none" ELSE "match",
                                   !.result = m]
    /\ UNCHANGED <<query_cache, notPgVars>>

\* clear_cache, lines 166-172: DELETE FROM query_cache.
PgClearCache ==
    /\ query_cache # << >>
    /\ query_cache' = << >>
    /\ pg_ret' = [NoPgRet EXCEPT !.op = "clear"]
    /\ UNCHANGED notPgVars

NextPg ==
    \/ \E q \in Questions : PgAddToCache(q)
    \/ \E v \in Vectors, t \in ThresholdArgs : PgFindSimilarQuestion(v, t)
    \/ PgClearCache

(***************************************************************************)
(* The SQL validator, agents/text_to_sql.py class SQLValidator.  Text is a *)
(* sequence of characters.                                                 *)
(***************************************************************************)
MaxStatements == 2      \* statements of an input text

LowerCase == <<"a", "b", "c", "d", "e", "f", "g", "h", "i", "j", "k", "l", "m",
               "n", "o", "p", "q", "r", "s", "t", "u", "v", "w", "x", "y", "z">>
UpperCase == <<"A", "B", "C", "D", "E", "F", "G", "H", "I", "J", "K", "L", "M",
               "N", "O", "P", "Q", "R", "S", "T", "U", "V", "W", "X", "Y", "Z">>
Digits == {"0", "1", "2", "3", "4", "5", "6", "7", "8", "9"}
Range(f) == {f[i] : i \in DOMAIN f}

\* str.upper, str.lower
UpperChar(c) ==
    IF c \in Range(LowerCase)
    THEN UpperCase[CHOOSE i \in 1..26 : LowerCase[i] = c]
    ELSE c
LowerChar(c) ==
    IF c \in Range(UpperCase)
    THEN LowerCase[CHOOSE i \in 1..26 : UpperCase[i] = c]
    ELSE c
Upper(s) == [i \in 1..Len(s) |-> UpperChar(s[i])]
Lower(s) == [i \in 1..Len(s) |-> LowerChar(s[i])]

\* str.strip, str.startswith, str.endswith, the "in" of two strings
IsSpace(c) == c \in {" ", "\n", "\t"}
RECURSIVE LStrip(_)
LStrip(s) == IF s # << >> /\ IsSpace(Head(s)) THEN LStrip(Tail(s)) ELSE s
RECURSIVE RStrip(_)
RStrip(s) ==
    IF s # << >> /\ IsSpace(s[Len(s)]) THEN RStrip(SubSeq(s, 1, Len(s) - 1)) ELSE s
Strip(s) == RStrip(LStrip(s))
StartsWith(s, p) == Len(s) >= Len(p) /\ SubSeq(s, 1, Len(p)) = p
EndsWith(s, p) == Len(s) >= Len(p) /\ SubSeq(s, Len(s) - Len(p) + 1, Len(s)) = p
Contains(s, p) == \E i \in 1..Len(s) : StartsWith(SubSeq(s, i, Len(s)), p)
From(s, n) == SubSeq(s, n + 1, Len(s))

\* The grave accent (the character of a markdown fence), written by name.
Backtick == "grave"
Fence == <<Backtick, Backtick, Backtick>>
FenceSql == <<Backtick, Backtick, Backtick, "s", "q", "l">>
\* Lines 45-51.
prefixes_to_remove ==
    <<<<"S", "Q", "L", ":">>,
      <<"Q", "u", "e", "r", "y", ":">>,
      <<"H", "e", "r", "e", " ", "i", "s", " ", "t", "h", "e", " ", "S", "Q", "L", ":">>,
      <<"T", "h", "e", " ", "S", "Q", "L", " ", "q", "u", "e", "r", "y", " ", "i", "s", ":">>,
      <<"S", "Q", "L", " ", "q", "u", "e", "r", "y", ":">>>>

\* Lines 53-55: the loop over the prefixes, from prefix k on.
RECURSIVE RemovePrefixes(_, _)
RemovePrefixes(cleaned, k) ==
    IF k > Len(prefixes_to_remove)
    THEN cleaned
    ELSE IF StartsWith(Lower(cleaned), Lower(prefixes_to_remove[k]))
         THEN RemovePrefixes(Strip(From(cleaned, Len(prefixes_to_remove[k]))), k + 1)
         ELSE RemovePrefixes(cleaned, k + 1)

\* Lines 36-39 and 41-42.
RemoveOpeningFence(cleaned) ==
    IF StartsWith(cleaned, FenceSql) THEN From(cleaned, 6)
    ELSE IF StartsWith(cleaned, Fence) THEN From(cleaned, 3)
    ELSE cleaned
RemoveClosingFence(cleaned) ==
    IF EndsWith(cleaned, Fence) THEN SubSeq(cleaned, 1, Len(cleaned) - 3) ELSE cleaned

\* clean_sql_response, lines 31-57.
clean_sql_response(response) ==
    IF Strip(response) = << >>
    THEN << >>
    ELSE Strip(RemovePrefixes(RemoveClosingFence(RemoveOpeningFence(Strip(response))), 1))

(***************************************************************************)
(* sqlparse.parse, as parse_sql_statements (lines 70-73) calls it: the     *)
(* lexer, the split into statements at ";", and the grouping that makes a  *)
(* name an Identifier and a comment followed by more text a Comment group  *)
(* (groups have ttype None).                                               *)
(***************************************************************************)
KeywordsDML == {<<"S", "E", "L", "E", "C", "T">>, <<"I", "N", "S", "E", "R", "T">>, <<"U", "P", "D", "A", "T", "E">>, <<"D", "E", "L", "E", "T", "E">>}
KeywordsDDL == {<<"D", "R", "O", "P">>, <<"C", "R", "E", "A", "T", "E">>, <<"A", "L", "T", "E", "R">>}
KeywordsOther == {<<"F", "R", "O", "M">>, <<"T", "A", "B", "L", "E">>, <<"I", "N", "T", "O">>, <<"W", "H", "E", "R", "E">>, <<"S", "E", "T">>}

IsWordChar(c) ==
    c \in Range(LowerCase) \cup Range(UpperCase) \cup Digits \cup {"_"}

\* The end of the run of characters satisfying the lexer's rule from position i.
RECURSIVE WordEnd(_, _)
WordEnd(s, i) == IF i < Len(s) /\ IsWordChar(s[i + 1]) THEN WordEnd(s, i + 1) ELSE i
RECURSIVE LineEnd(_, _)
LineEnd(s, i) == IF i >= Len(s) \/ s[i] = "\n" THEN i ELSE LineEnd(s, i + 1)

WordType(word) ==
    IF \A k \in 1..Len(word) : word[k] \in Digits THEN "Number"
    ELSE IF Upper(word) \in KeywordsDML THEN "Keyword.DML"
    ELSE IF Upper(word) \in KeywordsDDL THEN "Keyword.DDL"
    ELSE IF Upper(word) \in KeywordsOther THEN "Keyword"
    ELSE "Name"

\* The token that starts at position i.
NextToken(s, i) ==
    IF s[i] = "-" /\ i < Len(s) /\ s[i + 1] = "-"
    THEN [ttype |-> "Comment.Single", value |-> SubSeq(s, i, LineEnd(s, i))]
    ELSE IF s[i] = "\n" THEN [ttype |-> "Whitespace.Newline", value |-> <<s[i]>>]
    ELSE IF IsSpace(s[i]) THEN [ttype |-> "Whitespace", value |-> <<s[i]>>]
    ELSE IF s[i] = "*" THEN [ttype |-> "Wildcard", value |-> <<s[i]>>]
    ELSE IF s[i] = ";" THEN [ttype |-> "Punctuation", value |-> <<s[i]>>]
    ELSE IF IsWordChar(s[i])
    THEN [ttype |-> WordType(SubSeq(s, i, WordEnd(s, i))),
          value |-> SubSeq(s, i, WordEnd(s, i))]
    ELSE [ttype |-> "Error", value |-> <<s[i]>>]

RECURSIVE Lex(_, _)
Lex(s, i) ==
    IF i > Len(s) THEN << >>
    ELSE <<NextToken(s, i)>> \o Lex(s, i + Len(NextToken(s, i).value))

IsWhitespace(t) == t.ttype \in {"Whitespace", "Whitespace.Newline"}

\* The statement splitter: a statement ends with its ";" and the blanks and
\* line comments after it; what is left at the end is a statement unless it is
\* blank.  (tokens from i on, the statement being built, the statements so far)
RECURSIVE SplitStatements(_, _, _, _, _)
SplitStatements(tokens, i, current, consume_ws, done) ==
    IF i > Len(tokens)
    THEN IF current # << >> /\ ~(\A k \in 1..Len(current) : IsWhitespace(current[k]))
         THEN Append(done, current)
         ELSE done
    ELSE LET t == tokens[i]
             flush == consume_ws /\ t.ttype \notin {"Whitespace", "Comment.Single"}
             ends == t.ttype = "Punctuation" /\ t.value = <<";">>
         IN  IF flush
             THEN SplitStatements(tokens, i + 1, <<t>>, ends, Append(done, current))
             ELSE SplitStatements(tokens, i + 1, Append(current, t),
                                  consume_ws \/ ends, done)

\* parse_sql_statements, lines 70-73.
parse_sql_statements(sql) == SplitStatements(Lex(sql, 1), 1, << >>, FALSE, << >>)

\* str(statement)
RECURSIVE Text(_)
Text(tokens) == IF tokens = << >> THEN << >> ELSE Head(tokens).value \o Text(Tail(tokens))

\* Token k of a statement is part of a group (ttype None): a name is an
\* Identifier, a comment with a token other than blanks and comments after it
\* is a Comment.
IsGroup(statement, k) ==
    \/ statement[k].ttype = "Name"
    \/ /\ statement[k].ttype = "Comment.Single"
       /\ \E m \in (k + 1)..Len(statement) :
            ~IsWhitespace(statement[m]) /\ statement[m].ttype # "Comment.Single"

\* Lines 93-100: the first token that is a group with text, or whose ttype is
\* Keyword or Keyword.DML (a DDL keyword is neither); its text, stripped, in
\* upper case.  << >> when the statement has no such token (first_token None).
IsMeaningful(statement, k) ==
    \/ IsGroup(statement, k) /\ Strip(statement[k].value) # << >>
    \/ statement[k].ttype \in {"Keyword", "Keyword.DML"}

FirstToken(statement) ==
    IF \E k \in 1..Len(statement) : IsMeaningful(statement, k)
    THEN LET k == CHOOSE k \in 1..Len(statement) :
                    /\ IsMeaningful(statement, k)
                    /\ \A m \in 1..(k - 1) : ~IsMeaningful(statement, m)
         IN  Upper(Strip(statement[k].value))
    ELSE << >>

\* is_select_only, lines 86-105.
is_select_only(sql) ==
    LET statements == parse_sql_statements(sql)
    IN  \A n \in 1..Len(statements) :
            LET first_token == FirstToken(statements[n])
            IN  ~(/\ first_token # << >>
                  /\ ~StartsWith(first_token, <<"S", "E", "L", "E", "C", "T">>))

\* Line 144.
sql_keywords == {<<"S", "E", "L", "E", "C", "T">>, <<"I", "N", "S", "E", "R", "T">>, <<"U", "P", "D", "A", "T", "E">>, <<"D", "E", "L", "E", "T", "E">>, <<"C", "R", "E", "A", "T", "E">>, <<"D", "R", "O", "P">>, <<"A", "L", "T", "E", "R">>}

\* Lines 129-146 for one statement.
StatementOk(statement) ==
    LET sql_str == Strip(Text(statement))
    IN  /\ statement # << >>
        /\ sql_str # << >>
        /\ \/ StartsWith(sql_str, <<"-", "-">>)
           \/ StartsWith(sql_str, <<"/", "*">>)
           \/ \E keyword \in sql_keywords : Contains(Upper(sql_str), keyword)

\* validate_sql_syntax, lines 118-151.
validate_sql_syntax(sql) ==
    LET statements == parse_sql_statements(sql)
    IN  /\ Strip(sql) # << >>
        /\ statements # << >>
        /\ \A n \in 1..Len(statements) : StatementOk(statements[n])

\* Line 176.
ReadonlyRejects(cleaned_sql, ro) == ro /\ ~is_select_only(cleaned_sql)

\* A validator that hands the text back when cleaning leaves nothing of it.
validate_and_clean_sql_KeepBlank(sql, ro) ==
    LET cleaned_sql == clean_sql_response(sql)
    IN  IF cleaned_sql = << >> THEN sql
        ELSE IF ~validate_sql_syntax(cleaned_sql) THEN << >>
        ELSE IF ReadonlyRejects(cleaned_sql, ro) THEN << >>
        ELSE cleaned_sql

\* validate_and_clean_sql, lines 166-179.
validate_and_clean_sql(sql, ro) ==
    LET cleaned_sql == clean_sql_response(sql)
    IN  IF cleaned_sql = << >> THEN << >>
        ELSE IF ~validate_sql_syntax(cleaned_sql) THEN << >>
        ELSE IF ReadonlyRejects(cleaned_sql, ro) THEN << >>
        ELSE cleaned_sql

(***************************************************************************)
(* The texts the validator is given: up to MaxStatements statements joined *)
(* by "; ", with or without a last ";", bare or as a model writes them     *)
(* (in a markdown fence, after a label).                                   *)
(***************************************************************************)
StatementTexts ==
    {<<"S", "E", "L", "E", "C", "T", " ", "*", " ", "F", "R", "O", "M", " ", "t">>,
     <<"s", "e", "l", "e", "c", "t", " ", "1">>,
     <<"D", "R", "O", "P", " ", "T", "A", "B", "L", "E", " ", "t">>,
     <<"D", "R", "O", "P", " ", "s", "e", "l", "e", "c", "t", "i", "o", "n", "s">>,
     <<"D", "E", "L", "E", "T", "E", " ", "F", "R", "O", "M", " ", "t">>,
     <<"-", "-", " ", "c", "\n", "S", "E", "L", "E", "C", "T", " ", "1">>,
     <<"-", "-", " ", "c", "\n", "t">>,
     <<"t">>}

Wrappers == {"bare", "fence_sql", "fence", "label", "fence_label"}
Wrap(k, body) ==
    CASE k = "bare" -> body
      [] k = "fence_sql" -> FenceSql \o <<"\n">> \o body \o <<"\n">> \o Fence
      [] k = "fence" -> Fence \o <<"\n">> \o body \o <<"\n">> \o Fence
      [] k = "label" -> <<"S", "Q", "L", ":", " ">> \o body
      [] k = "fence_label" ->
            FenceSql \o <<"\n">> \o <<"s", "q", "l", " ", "Q", "u", "e", "r", "y", ":", " ">>
                \o body \o <<"\n">> \o Fence

RECURSIVE Join(_)
Join(texts) ==
    IF texts = << >> THEN << >>
    ELSE IF Len(texts) = 1 THEN texts[1]
    ELSE texts[1] \o <<";", " ">> \o Join(Tail(texts))

Bodies ==
    {Join(texts) \o semi :
        texts \in UNION {[1..n -> StatementTexts] : n \in 0..MaxStatements},
        semi \in {<< >>, <<";">>}}
\* Texts of blanks only.
Blanks == {<<" ">>, <<"\n", "\t", " ">>}
Inputs == {Wrap(k, body) : k \in Wrappers, body \in Bodies} \cup Blanks

\* The example of the contract: SELECT * FROM t; DROP TABLE t;
Example == <<"S", "E", "L", "E", "C", "T", " ", "*", " ", "F", "R", "O", "M", " ", "t", ";", " ", "D", "R", "O", "P", " ", "T", "A", "B", "L", "E", " ", "t", ";">>

NotCalled == <<"not called">>

SqlIdle ==
    /\ sql_in = << >>
    /\ readonly = FALSE
    /\ sql_out = NotCalled

SqlInit ==
    /\ sql_in \in Inputs
    /\ readonly \in BOOLEAN
    /\ sql_out = NotCalled

ValidateAndCleanSql ==
    /\ sql_out = NotCalled
    /\ sql_out' = validate_and_clean_sql(sql_in, readonly)
    /\ UNCHANGED <<sql_in, readonly, notSqlVars>>

NextSql == ValidateAndCleanSql

(***************************************************************************)
(* The text-to-SQL service (agents/text_to_sql.py, TextToSQLService) and   *)
(* the endpoints of api/server.py that call it.  One request is one step.  *)
(***************************************************************************)
\* core/config.py: SIMILARITY_THRESHOLD, 0.8.
SIMILARITY_THRESHOLD == <<4, 5>>

\* The questions asked of the service.
Asked == {"east", "diag"}
\* What the language model answers (response.content, or the chain's output).
LlmResponses ==
    {<< >>,
     Wrap("fence_sql", <<"S", "E", "L", "E", "C", "T", " ", "*", " ", "F", "R", "O", "M", " ", "t">>),
     <<"D", "R", "O", "P", " ", "T", "A", "B", "L", "E", " ", "t">>,
     <<"D", "R", "O", "P", " ", "s", "e", "l", "e", "c", "t", "i", "o", "n", "s">>}
\* The answers to a question: any of them to "east"; "diag" is the question of
\* another vector, whose entries share the cache, and is answered with a SELECT.
Answers(q) ==
    IF q = "east" THEN LlmResponses
    ELSE {Wrap("fence_sql", <<"S", "E", "L", "E", "C", "T", " ", "*", " ", "F", "R", "O", "M", " ", "t">>)}
\* The sql_query field of the requests to /api/execute-sql.
SqlRequests == {<<" ", " ">>, <<" ", "t", " ">>, <<"D", "R", "O", "P", " ", "T", "A", "B", "L", "E", " ", "t">>, <<"S", "E", "L", "E", "C", "T", " ", "*", " ", "F", "R", "O", "M", " ", "t">>}

\* validate_and_clean_sql on the texts the service meets: the model's answers,
\* the SQL read back from the cache (a validated statement) and the requests' SQL.
SqlTexts == LlmResponses \cup StatementTexts \cup {Strip(r) : r \in SqlRequests}
Validated ==
    {<<sql, ro, validate_and_clean_sql(sql, ro)>> : sql \in SqlTexts, ro \in BOOLEAN}
Validate(sql, ro) == (CHOOSE t \in Validated : t[1] = sql /\ t[2] = ro)[3]

NoRequest == [endpoint |-> "none", question |-> "none", readonly |-> FALSE,
              raw_sql |-> NotCalled]
NoResponse == [status |-> "none", sql_query |-> << >>, is_valid |-> FALSE,
               from_cache |-> FALSE]

AgentIdle ==
    /\ target_db = "none"
    /\ areq = NoRequest
    /\ aresp = NoResponse
    /\ db_run = NotCalled
    /\ answered = {}

\* __init__, lines 204-211: target_db stays None without TARGET_DB_URI or when
\* the connection fails.
AgentInit ==
    /\ target_db \in {"none", "connected"}
    /\ areq = NoRequest
    /\ aresp = NoResponse
    /\ db_run = NotCalled
    /\ answered = {}

\* _generate_sql_query, lines 243-277: the validated text, which is "" when the
\* validator rejects the answer; an exception of the model gives "" as well.
_generate_sql_query(raw_sql, ro) == Validate(raw_sql, ro)

\* process_question, line 338: "if not sql_query" returns before the cache is written.
Generated_Always(sql_query) == TRUE
Generated(sql_query) == sql_query # << >>

\* The answers the store may give to collection.query(n_results=1): 0 is none.
Candidates(entries, v) == IF entries = << >> THEN {0} ELSE Nearest(entries, v)

\* process_question, lines 305-332: the cached SQL of the similar question after
\* validation for this request's mode, "" when there is none.  i is the store's
\* answer to the lookup; a lookup the store fails is None (chroma_db.py lines
\* 169-171).
CachedSql(entries, i, v, ro, find_ok) ==
    IF /\ find_ok
       /\ i \in 1..Len(entries)
       /\ Accepts(SimilarityScore(Distance(entries[i].embedding, v)), SIMILARITY_THRESHOLD)
    THEN Validate(entries[i].sql_query, ro)
    ELSE << >>

\* process_question, lines 321-362: the result and the entries the cache holds
\* afterwards; an add_to_cache that raises is swallowed (lines 350-353).
Outcome(entries, doc_id, q, v, cached, sql_query, add_ok) ==
    IF cached # << >>
    THEN [sql_query |-> cached, is_valid |-> TRUE, from_cache |-> TRUE,
          entries |-> entries]
    ELSE IF ~Generated(sql_query)
    THEN [sql_query |-> << >>, is_valid |-> FALSE, from_cache |-> FALSE,
          entries |-> entries]
    ELSE [sql_query |-> sql_query, is_valid |-> TRUE, from_cache |-> FALSE,
          entries |-> IF add_ok
                      THEN CollectionAdd(entries, NewEntry(doc_id, q, sql_query, v))
                      ELSE entries]

\* get_cache_stats is called while the result is built (lines 328, 345, 360); it
\* raises when persist_directory is unset, and the handler of lines 364-373 then
\* answers with an empty, invalid result.
WithCacheStats(result) ==
    IF persist_directory = Unset
    THEN [result EXCEPT !.sql_query = << >>, !.is_valid = FALSE, !.from_cache = FALSE]
    ELSE result

\* process_question, lines 301-373.
process_question(entries, i, q, ro, raw_sql, find_ok, add_ok) ==
    WithCacheStats(Outcome(entries, uuid4(store), q, _generate_embedding(q),
                           CachedSql(entries, i, _generate_embedding(q), ro, find_ok),
                           _generate_sql_query(raw_sql, ro), add_ok))

\* execute_sql, lines 385-403: what target_db.run is given, if it is called.
execute_sql(sql_query) == IF target_db = "none" THEN NotCalled ELSE sql_query

Request(endpoint, q, ro, raw_sql, r) ==
    [endpoint |-> endpoint, question |-> q, readonly |-> ro,
     raw_sql |-> IF r.from_cache THEN NotCalled ELSE raw_sql]
Response(status, r) ==
    [status |-> status, sql_query |-> r.sql_query, is_valid |-> r.is_valid,
     from_cache |-> r.from_cache]

\* POST /api/execute-sql, server.py lines 209-263: the request's text goes to
\* execute_sql stripped, with no call of the validator.
api_execute_sql(sql_query) ==
    /\ areq' = [NoRequest EXCEPT !.endpoint = "execute_sql", !.raw_sql = sql_query]
    /\ IF Strip(sql_query) = << >>
       THEN /\ aresp' = [NoResponse EXCEPT !.status = "400"]
            /\ db_run' = NotCalled
       ELSE /\ db_run' = execute_sql(Strip(sql_query))
            /\ aresp' = [NoResponse EXCEPT
                           !.status = IF target_db = "none" THEN "400" ELSE "200",
                           !.sql_query = Strip(sql_query)]
    /\ UNCHANGED <<target_db, answered, store, notAgentVars>>

\* POST /api/text-to-sql-and-execute, server.py lines 265-362, after
\* process_question returned r: the SQL runs only if r is valid and not empty.
ExecuteResult(q, ro, raw_sql, r) ==
    /\ Len(r.entries) <= MaxEntries
    /\ store' = [store EXCEPT !.entries = r.entries]
    /\ areq' = Request("text_to_sql_and_execute", q, ro, raw_sql, r)
    /\ aresp' = Response(IF r.is_valid /\ r.sql_query # << >> /\ target_db # "none"
                         THEN "200" ELSE "400", r)
    /\ db_run' = IF r.is_valid /\ r.sql_query # << >>
                 THEN execute_sql(r.sql_query) ELSE NotCalled
    /\ answered' = IF r.is_valid /\ ~r.from_cache /\ r.entries # store.entries
                   THEN answered \cup {<<_generate_embedding(q), ro>>}
                   ELSE answered
    /\ UNCHANGED <<target_db, notAgentVars>>

text_to_sql_and_execute(q, ro, raw_sql, find_ok, add_ok) ==
    \E i \in Candidates(store.entries, _generate_embedding(q)) :
        ExecuteResult(q, ro, raw_sql,
                      process_question(store.entries, i, q, ro, raw_sql, find_ok, add_ok))

\* The store serves both cache calls of a request, or fails one of them.
StoreFaults == {<<TRUE, TRUE>>, <<FALSE, TRUE>>, <<TRUE, FALSE>>}

NextAgent ==
    \/ \E sql_query \in SqlRequests : api_execute_sql(sql_query)
    \/ \E q \in Asked, ro \in BOOLEAN, ok \in StoreFaults : \E raw_sql \in Answers(q) :
          text_to_sql_and_execute(q, ro, raw_sql, ok[1], ok[2])

(***************************************************************************)
(* Schema discovery, services/discovery_service.py: the analysis of one    *)
(* table.  Names and types are sequences of characters; scores are in      *)
(* tenths (0.9 is 9).                                                      *)
(***************************************************************************)
MaxColumns == 4         \* columns of an inspected table

\* Lines 26-41 and 44-57.
supported_text_types ==
    {<<"v", "a", "r", "c", "h", "a", "r">>,
     <<"c", "h", "a", "r">>,
     <<"t", "e", "x", "t">>,
     <<"n", "v", "a", "r", "c", "h", "a", "r">>,
     <<"n", "c", "h", "a", "r">>,
     <<"n", "t", "e", "x", "t">>,
     <<"l", "o", "n", "g", "t", "e", "x", "t">>,
     <<"m", "e", "d", "i", "u", "m", "t", "e", "x", "t">>,
     <<"t", "i", "n", "y", "t", "e", "x", "t">>,
     <<"s", "t", "r", "i", "n", "g">>,
     <<"j", "s", "o", "n">>,
     <<"j", "s", "o", "n", "b">>,
     <<"x", "m", "l">>,
     <<"c", "l", "o", "b">>,
     <<"b", "l", "o", "b">>}
supported_numeric_types ==
    {<<"i", "n", "t">>,
     <<"i", "n", "t", "e", "g", "e", "r">>,
     <<"b", "i", "g", "i", "n", "t">>,
     <<"s", "m", "a", "l", "l", "i", "n", "t">>,
     <<"t", "i", "n", "y", "i", "n", "t">>,
     <<"d", "e", "c", "i", "m", "a", "l">>,
     <<"n", "u", "m", "e", "r", "i", "c">>,
     <<"f", "l", "o", "a", "t">>,
     <<"d", "o", "u", "b", "l", "e">>,
     <<"r", "e", "a", "l">>,
     <<"m", "o", "n", "e", "y">>,
     <<"s", "m", "a", "l", "l", "m", "o", "n", "e", "y">>}

\* Columns as the inspector reports them: name and str(column["type"]).
ColumnSamples ==
    {[name |-> <<"b", "o", "d", "y">>, type |-> <<"T", "E", "X", "T">>],
     [name |-> <<"d", "e", "s", "c", "r", "i", "p", "t", "i", "o", "n">>, type |-> <<"V", "A", "R", "C", "H", "A", "R", "(", "2", "5", "5", ")">>],
     [name |-> <<"t", "i", "t", "l", "e">>, type |-> <<"V", "A", "R", "C", "H", "A", "R", "(", "5", "0", ")">>],
     [name |-> <<"p", "a", "y", "l", "o", "a", "d">>, type |-> <<"J", "S", "O", "N">>],
     [name |-> <<"i", "d">>, type |-> <<"I", "N", "T", "E", "G", "E", "R">>]}
EstimatedRows == {-1, 0, 99, 100}

\* Lines 193-206, in tenths, with the varchar rule put before the rule on names.
potential_score_VarcharFirst(name, column_type) ==
    IF Contains(column_type, <<"t", "e", "x", "t">>)
          \/ Contains(column_type, <<"l", "o", "n", "g", "t", "e", "x", "t">>)
    THEN 9
    ELSE IF Contains(column_type, <<"v", "a", "r", "c", "h", "a", "r">>)
    THEN 5
    ELSE IF Contains(column_type, <<"j", "s", "o", "n">>)
    THEN 7
    ELSE 0

\* Lines 193-206, in tenths.
potential_score(name, column_type) ==
    IF Contains(column_type, <<"t", "e", "x", "t">>)
          \/ Contains(column_type, <<"l", "o", "n", "g", "t", "e", "x", "t">>)
    THEN 9
    ELSE IF /\ Contains(column_type, <<"v", "a", "r", "c", "h", "a", "r">>)
            /\ \/ Contains(Lower(name), <<"d", "e", "s", "c", "r", "i", "p", "t", "i", "o", "n">>)
               \/ Contains(Lower(name), <<"c", "o", "m", "m", "e", "n", "t">>)
               \/ Contains(Lower(name), <<"c", "o", "n", "t", "e", "n", "t">>)
    THEN 8
    ELSE IF Contains(column_type, <<"v", "a", "r", "c", "h", "a", "r">>)
    THEN 5
    ELSE IF Contains(column_type, <<"j", "s", "o", "n">>)
    THEN 7
    ELSE 0

\* _analyze_column, lines 178-216.
ColumnInfo(name, column_type) ==
    [name |-> name,
     type |-> column_type,
     is_text |-> \E text_type \in supported_text_types : Contains(column_type, text_type),
     is_numeric |-> \E num_type \in supported_numeric_types : Contains(column_type, num_type),
     vectorizable |->
        /\ \E text_type \in supported_text_types : Contains(column_type, text_type)
        /\ \/ Contains(column_type, <<"t", "e", "x", "t">>)
           \/ Contains(column_type, <<"v", "a", "r", "c", "h", "a", "r">>),
     potential_score |-> potential_score(name, column_type),
     recommended_for_embedding |-> potential_score(name, column_type) > 6]
AnalyzedSamples == {<<column, ColumnInfo(column.name, Lower(column.type))>> :
                        column \in ColumnSamples}
_analyze_column(column) == (CHOOSE t \in AnalyzedSamples : t[1] = column)[2]

\* The number of columns of the analysis for which a field is true (lines 140-146).
Count(columns, field) == Cardinality({i \in 1..Len(columns) : columns[i][field]})

\* A size penalty that also takes the bounds 0 and 100.
SmallTable_Inclusive(estimated_rows) == 0 <= estimated_rows /\ estimated_rows <= 100

\* Line 279.
SmallTable(estimated_rows) == 0 < estimated_rows /\ estimated_rows < 100

\* _calculate_vectorization_potential, lines 263-287.  The value is a fraction:
\* with total_columns = n the sum text_ratio * 0.4 + vectorizable_ratio * 0.6 +
\* content_bonus is (4 * text + 6 * vectorizable + 2 * n * bonuses) / (10 * n),
\* and the size factor halves it.
_calculate_vectorization_potential(info) ==
    IF info.total_columns = 0
    THEN [num |-> 0, den |-> 1]
    ELSE LET n == info.total_columns
             bonuses == Cardinality({i \in 1..Len(info.columns) :
                                        info.columns[i].potential_score > 7})
             sum == 4 * info.text_columns + 6 * info.vectorizable_columns + 2 * n * bonuses
             potential == IF SmallTable(info.estimated_rows) THEN sum ELSE 2 * sum
         IN  [num |-> IF potential > 20 * n THEN 20 * n ELSE potential, den |-> 20 * n]

\* Lines 300-307 with the last bound off by one.
_recommend_strategy_Below3(info) ==
    IF info.vectorizable_columns = 0 THEN "none"
    ELSE IF info.vectorizable_columns = 1 THEN "single_column"
    ELSE IF info.vectorizable_columns < 3 THEN "concatenated"
    ELSE "weighted_combination"

\* _recommend_strategy, lines 298-308.
_recommend_strategy(info) ==
    IF info.vectorizable_columns = 0 THEN "none"
    ELSE IF info.vectorizable_columns = 1 THEN "single_column"
    ELSE IF info.vectorizable_columns <= 3 THEN "concatenated"
    ELSE "weighted_combination"

\* The counters of lines 123-146 and the estimate of line 149.
Counted(columns, estimated_rows) ==
    [columns |-> columns,
     total_columns |-> Len(columns),
     text_columns |-> Count(columns, "is_text"),
     numeric_columns |-> Count(columns, "is_numeric"),
     vectorizable_columns |-> Count(columns, "vectorizable"),
     estimated_rows |-> estimated_rows]

\* Lines 152-160.
Scored(info) ==
    [columns |-> info.columns,
     total_columns |-> info.total_columns,
     text_columns |-> info.text_columns,
     numeric_columns |-> info.numeric_columns,
     vectorizable_columns |-> info.vectorizable_columns,
     estimated_rows |-> info.estimated_rows,
     vectorization_potential |-> _calculate_vectorization_potential(info),
     recommended_strategy |-> _recommend_strategy(info)]

NoInfo == [columns |-> << >>, total_columns |-> 0, text_columns |-> 0,
           numeric_columns |-> 0, vectorizable_columns |-> 0, estimated_rows |-> 0,
           vectorization_potential |-> [num |-> 0, den |-> 0],
           recommended_strategy |-> "not analyzed"]
NoTable == [columns |-> << >>, estimated_rows |-> 0]

\* _analyze_table, lines 119-162, on what the inspector reports.
_analyze_table(table) ==
    Scored(Counted([i \in 1..Len(table.columns) |-> _analyze_column(table.columns[i])],
                   table.estimated_rows))

\* The keywords auto_configure_table gives to TableConfig(...), lines 376-389.
TableConfigKwargs ==
    {"database_connection_id", "table_name", "description", "is_enabled",
     "vectorization_strategy", "content_columns", "metadata_columns",
     "primary_key_column", "total_records"}

\* The constructor of a mapped class takes the attributes of the class as
\* keywords and raises TypeError for any other.
ConstructorAccepts(kwargs) == kwargs \subseteq TableConfigAttributes

\* Lines 380-381: is_enabled and vectorization_strategy as the call passes them.
PassedConfig(info) ==
    [is_enabled |-> info.vectorization_potential.num * 10
                       > 3 * info.vectorization_potential.den,
     vectorization_strategy |-> info.recommended_strategy]

\* Lines 394-403: one ColumnConfig for each vectorizable column of the analysis.
RECURSIVE ColumnConfigs(_)
ColumnConfigs(columns) ==
    IF columns = << >> THEN << >>
    ELSE (IF Head(columns).vectorizable
          THEN <<[column_name |-> Head(columns).name,
                  should_vectorize |-> Head(columns).recommended_for_embedding,
                  embedding_weight |-> Head(columns).potential_score]>>
          ELSE << >>) \o ColumnConfigs(Tail(columns))

NoPassed == [is_enabled |-> FALSE, vectorization_strategy |-> "not passed"]
NotConfigured == [outcome |-> "not called", table_info |-> NoInfo, passed |-> NoPassed,
                  table_config |-> NoPassed, column_configs |-> << >>]

\* auto_configure_table, lines 371-406, after the analysis gave info: the rows the
\* session holds when the call ends, and the call's outcome.
auto_configure_table(info) ==
    IF ~ConstructorAccepts(TableConfigKwargs)
    THEN [NotConfigured EXCEPT !.outcome = "TypeError", !.table_info = info,
                               !.passed = PassedConfig(info)]
    ELSE [outcome |-> "created", table_info |-> info, passed |-> PassedConfig(info),
          table_config |-> PassedConfig(info),
          column_configs |-> ColumnConfigs(info.columns)]

DiscoveryIdle ==
    /\ inspected = NoTable
    /\ table_info = NoInfo
    /\ configured = NotConfigured

DiscoveryInit ==
    /\ inspected \in [columns : UNION {[1..n -> ColumnSamples] : n \in 0..MaxColumns},
                       estimated_rows : EstimatedRows]
    /\ table_info = NoInfo
    /\ configured = NotConfigured

\* _analyze_table called by discover_database_schema (line 90).
AnalyzeTable ==
    /\ table_info = NoInfo
    /\ configured = NotConfigured
    /\ table_info' = _analyze_table(inspected)
    /\ UNCHANGED <<inspected, configured, notDiscoveryVars>>

\* auto_configure_table, lines 350-406: the table is analyzed (an analysis that
\* fails gives None and the call raises ValueError, lines 368-369), then the
\* rows are built.
AutoConfigureTable ==
    /\ table_info = NoInfo
    /\ configured = NotConfigured
    /\ \E analyzed \in BOOLEAN :
          configured' = IF analyzed
                        THEN auto_configure_table(_analyze_table(inspected))
                        ELSE [NotConfigured EXCEPT !.outcome = "ValueError"]
    /\ UNCHANGED <<inspected, table_info, notDiscoveryVars>>

NextDiscovery ==
    \/ AnalyzeTable
    \/ AutoConfigureTable

(***************************************************************************)
(* Content generation of the pipeline, services/vectorization_service.py   *)
(* _generate_content.  A content is the list of the parts that the code    *)
(* joins; the texts of the model are shorter than max_text_length.         *)
(***************************************************************************)
MaxContentColumns == 2  \* column configs given to _generate_content
RecursionLimit == 3     \* sys.getrecursionlimit() (1000), scaled down

\* models/enums.py lines 18-24.
VectorizationStrategy ==
    [SINGLE_COLUMN |-> "single_column",
     CONCATENATED |-> "concatenated",
     WEIGHTED_COMBINATION |-> "weighted",
     SEMANTIC_CHUNKS |-> "semantic_chunks"]

\* The values table_configs.vectorization_strategy can hold: the enum's, the
\* column default (table_config.py line 34) and what _recommend_strategy gives.
Strategies ==
    {VectorizationStrategy.SINGLE_COLUMN, VectorizationStrategy.CONCATENATED,
     VectorizationStrategy.WEIGHTED_COMBINATION, VectorizationStrategy.SEMANTIC_CHUNKS,
     "full_table", "weighted_combination", "none"}

ContentColumns ==
    {[column_name |-> "title", should_vectorize |-> TRUE, embedding_weight |-> 5],
     [column_name |-> "body", should_vectorize |-> TRUE, embedding_weight |-> 9],
     [column_name |-> "code", should_vectorize |-> FALSE, embedding_weight |-> 0]}
\* A record: the columns whose value is not None.
Records == SUBSET {"title", "body"}

\* Lines 364-369, 373-378, 386-394: the columns that give a part.
Selected(record, columns, weighted) ==
    SelectSeq(columns, LAMBDA column :
                 /\ column.should_vectorize
                 /\ weighted => column.embedding_weight > 0
                 /\ column.column_name \in record)

\* max(1, int(column.embedding_weight * 3)), the weight in tenths.
weight_multiplier(embedding_weight) ==
    IF (embedding_weight * 3) \div 10 > 1 THEN (embedding_weight * 3) \div 10 ELSE 1

Returned(content) == [raised |-> "none", content |-> content]

\* Lines 398-400: the else branch calls _generate_content with the arguments it
\* was given, the table's strategy unchanged.
Fallback(strategy) == strategy

\* _generate_content, lines 360-400, at the given depth of the call stack.
RECURSIVE GenerateContent(_, _, _, _)
GenerateContent(strategy, record, columns, depth) ==
    IF depth > RecursionLimit
    THEN [raised |-> "RecursionError", content |-> << >>]
    ELSE IF strategy = VectorizationStrategy.SINGLE_COLUMN
    THEN Returned(IF Selected(record, columns, FALSE) = << >> THEN << >>
                  ELSE <<[value |-> Head(Selected(record, columns, FALSE)).column_name]>>)
    ELSE IF strategy = VectorizationStrategy.CONCATENATED
    THEN Returned([i \in 1..Len(Selected(record, columns, FALSE)) |->
                     [column_name |-> Selected(record, columns, FALSE)[i].column_name,
                      value |-> Selected(record, columns, FALSE)[i].column_name]])
    ELSE IF strategy = VectorizationStrategy.WEIGHTED_COMBINATION
    THEN Returned([i \in 1..Len(Selected(record, columns, TRUE)) |->
                     [column_name |-> Selected(record, columns, TRUE)[i].column_name,
                      value |-> Selected(record, columns, TRUE)[i].column_name,
                      times |-> weight_multiplier(
                                   Selected(record, columns, TRUE)[i].embedding_weight)]])
    ELSE GenerateContent(Fallback(strategy), record, columns, depth + 1)

_generate_content(strategy, record, columns) == GenerateContent(strategy, record, columns, 1)

NoContentCall == [strategy |-> "none", record |-> {}, columns |-> << >>]
NoContent == [raised |-> "not called", content |-> << >>]

ContentIdle ==
    /\ content_in = NoContentCall
    /\ content_out = NoContent

ContentInit ==
    /\ content_in \in [strategy : Strategies, record : Records,
                        columns : UNION {[1..n -> ContentColumns] :
                                            n \in 0..MaxContentColumns}]
    /\ content_out = NoContent

GenerateContentCall ==
    /\ content_out = NoContent
    /\ content_out' = _generate_content(content_in.strategy, content_in.record,
                                        content_in.columns)
    /\ UNCHANGED <<content_in, notContentVars>>

NextContent == GenerateContentCall

(***************************************************************************)
(* Specifications.                                                         *)
(***************************************************************************)
Others == DiscoveryIdle /\ ContentIdle
InitJobs == JobsInit /\ CacheIdle /\ PgInit /\ SqlIdle /\ AgentIdle /\ Others
InitCache == CacheInit /\ JobsInit /\ PgInit /\ SqlIdle /\ AgentIdle /\ Others
InitPg == PgInit /\ JobsInit /\ CacheIdle /\ SqlIdle /\ AgentIdle /\ Others
InitSql == SqlInit /\ JobsInit /\ CacheIdle /\ PgInit /\ AgentIdle /\ Others
InitAgent == AgentInit /\ CacheInit /\ JobsInit /\ PgInit /\ SqlIdle /\ Others
InitDiscovery ==
    DiscoveryInit /\ JobsInit /\ CacheIdle /\ PgInit /\ SqlIdle /\ AgentIdle /\ ContentIdle
InitContent ==
    ContentInit /\ JobsInit /\ CacheIdle /\ PgInit /\ SqlIdle /\ AgentIdle /\ DiscoveryIdle

SpecJobs == InitJobs /\ [][NextJobs]_vars

\* A step of a process_vectorization_job call that has loaded its job.
ProcStep(w) ==
    \/ ProcMarkInProgress(w)
    \/ ProcBatch(w)
    \/ ProcComplete(w)
    \/ ProcRollback(w)
    \/ ProcMarkFailed(w)

\* The jobs under a fair scheduler: a thread that can run again and again does
\* run (a transaction waiting for a row lock gets it once the holder has ended),
\* and an answer that is ready is sent.
SpecJobsFair ==
    /\ InitJobs
    /\ [][NextJobs]_vars
    /\ \A w \in Workers : SF_vars(ProcStep(w)) /\ WF_vars(Respond(w))
SpecCache == InitCache /\ [][NextCache]_vars
SpecPg == InitPg /\ [][NextPg]_vars
SpecSql == InitSql /\ [][NextSql]_vars
SpecAgent == InitAgent /\ [][NextAgent]_vars
SpecDiscovery == InitDiscovery /\ [][NextDiscovery]_vars
SpecContent == InitContent /\ [][NextContent]_vars

(***************************************************************************)
(* Claims about the vectorization jobs (checked under SpecJobs).           *)
(***************************************************************************)
ActiveJobs(tc) ==
    {j \in JobIds : jobs[j].table_config_id = tc /\ jobs[j].status \in Active}

AllowedChange ==
    {<<"absent", "pending">>,
     <<"pending", "in_progress">>, <<"pending", "completed">>, <<"pending", "failed">>,
     <<"in_progress", "completed">>, <<"in_progress", "failed">>,
     <<"pending", "cancelled">>, <<"in_progress", "cancelled">>}

\* C2: a job's status changes only along pending -> in_progress -> completed or
\* in_progress -> failed (or by cancellation); completed, failed and cancelled
\* are terminal, so no call changes the status of a job that is in one of them.
C2_StatusStateMachine ==
    [][\A j \in JobIds :
          jobs'[j].status # jobs[j].status
              => <<jobs[j].status, jobs'[j].status>> \in AllowedChange]_vars

\* C6: while a job is being processed, between two batches, what get_job_status
\* returns to another session is status in_progress and the cumulative counts
\* of the batches done so far.
C6_StatusSeesProgress ==
    \A w \in Workers, v \in Workers :
        (v # w /\ pc[w] = "proc_batch" /\ pc[v] = "idle") =>
            LET row == StatusRow(v, loc[w].job_id)
            IN  /\ row.status = "in_progress"
                /\ row.processed_rows = loc[w].total_processed
                /\ row.successful_rows = loc[w].successful
                /\ row.failed_rows = loc[w].failed

\* C7: once a job is marked cancelled, no further batch of it is started and its
\* status stays cancelled (it is not overwritten by completed or failed).
C7_CancelledStays ==
    [][/\ \A j \in JobIds :
             jobs[j].status = "cancelled" => jobs'[j].status = "cancelled"
       /\ \A w \in Workers :
             (pc[w] = "proc_batch" /\ loc'[w].offset > loc[w].offset)
                 => jobs[loc[w].job_id].status # "cancelled"]_vars

\* C8: a start for a table config that has a pending or in_progress job row
\* returns the 'already running' error and leaves the job rows as they were:
\* nothing is inserted, in the table or in the session.
C8_StartRejectedWhenActive ==
    [][\A w \in Workers :
          (/\ pc[w] = "idle"
           /\ pc'[w] # "idle"
           /\ loc'[w].op = "start"
           /\ ActiveJobs(loc'[w].table_config_id) # {})
          => /\ pc'[w] = "returned"
             /\ loc'[w].outcome = "already_running"
             /\ jobs' = jobs
             /\ sess' = sess
             /\ next_id' = next_id]_vars

C8_Witness ==
    \E w \in Workers :
        /\ pc[w] = "returned"
        /\ loc[w].op = "start"
        /\ loc[w].outcome = "already_running"
        /\ ActiveJobs(loc[w].table_config_id) # {}
        /\ \E j \in JobIds : jobs[j].status = "completed"

NoVectorizable(j) ==
    /\ j \in JobIds
    /\ jobs[j] # NoRow
    /\ vectorizable_columns(jobs[j].table_config_id) = 0

\* C17: process_vectorization_job on a pending job whose table config has no
\* vectorizable column moves it pending -> in_progress -> completed with
\* total_rows = processed_rows = successful_rows = failed_rows = 0 and no
\* error_message, and returns True: it is not treated as a failure.
C17_NoColumnsCompletes ==
    [][\A w \in Workers :
          LET j == loc[w].job_id
          IN  (loc[w].op = "process" /\ NoVectorizable(j) /\ jobs[j].status = "pending") =>
                 /\ (pc[w] = "proc_mark" /\ pc'[w] # "proc_mark") =>
                        /\ sess'[w].row.status = "in_progress"
                        /\ loc'[w].err = NoError => pc'[w] = "proc_complete"
                 /\ (pc[w] = "proc_complete" /\ pc'[w] = "returned") =>
                        /\ loc'[w].outcome = "true"
                        /\ jobs'[j].status = "completed"
                        /\ jobs'[j].total_rows = 0
                        /\ jobs'[j].processed_rows = 0
                        /\ jobs'[j].successful_rows = 0
                        /\ jobs'[j].failed_rows = 0
                        /\ jobs'[j].error_message = NoError]_vars

\* A call that completed a job of the table config without vectorizable columns.
C17_Witness ==
    \E w \in Workers :
        /\ pc[w] = "returned" /\ loc[w].op = "process" /\ loc[w].outcome = "true"
        /\ NoVectorizable(loc[w].job_id)
        /\ jobs[loc[w].job_id].status = "completed"
        /\ jobs[loc[w].job_id].total_rows = 0

\* Worker w has returned from processing a job of a table config with
\* vectorizable columns, and no call to the source database, its connection or
\* the collection setup failed.
Processed(w) ==
    /\ pc[w] = "returned"
    /\ loc[w].op = "process"
    /\ loc[w].job_id \in JobIds
    /\ jobs[loc[w].job_id] # NoRow
    /\ vectorizable_columns(jobs[loc[w].job_id].table_config_id) > 0
    /\ loc[w].err # "error"

\* The rows of the source table for which _generate_content returns "".
EmptyContent(tc) == {i \in 1..Len(SourceRows(tc)) : ~SourceRows(tc)[i].has_content}

\* C18: records with empty content or a failing preparation, and batches whose
\* embedding or store write raises, are counted in failed_rows while processing
\* goes on; such failures never make the job failed, it ends completed.
C18_PartialFailuresComplete ==
    \A w \in Workers :
        Processed(w) =>
            LET row == jobs[loc[w].job_id]
            IN  /\ loc[w].outcome = "true"
                /\ row.status = "completed"
                /\ row.failed_rows >= Cardinality(EmptyContent(row.table_config_id))
                /\ row.successful_rows + row.failed_rows = row.processed_rows

\* C19: for a source table that does not change during the job, the pages read
\* cover every row once and reading stops at the first empty page: the job's
\* final processed_rows is the table's row count.
C19_EveryRowRead ==
    \A w \in Workers :
        Processed(w) =>
            jobs[loc[w].job_id].processed_rows =
                Len(SourceRows(jobs[loc[w].job_id].table_config_id))

\* C20: a record's id is "{table}_{primaryKeyValue}", stable across runs: after
\* a job, and after a second job over the same rows, the collection holds one
\* vector per row under that id (unless the row's batch was counted failed).
C20_OneVectorPerRow ==
    \A w \in Workers :
        Processed(w) =>
            LET row == jobs[loc[w].job_id]
                tc == row.table_config_id
            IN  \/ row.failed_rows > Cardinality(EmptyContent(tc))
                \/ \A i \in 1..Len(SourceRows(tc)) \ EmptyContent(tc) :
                      <<table_name(tc), SourceRows(tc)[i].pk>> \in vstore[tc]

\* A process_vectorization_job call on an existing job has returned.
ProcessReturned(w) ==
    /\ pc[w] = "returned"
    /\ loc[w].op = "process"
    /\ jobs[loc[w].job_id] # NoRow

\* C35: every process_vectorization_job call on an existing job returns, and on
\* return the job is completed when the call returned true and failed when it
\* returned false, never pending or in_progress.  (SpecJobsFair)
C35_ProcessReturnsTerminal ==
    /\ [](\A w \in Workers :
             ProcessReturned(w) =>
                 /\ loc[w].outcome \in {"true", "false"}
                 /\ loc[w].outcome = "true" => jobs[loc[w].job_id].status = "completed"
                 /\ loc[w].outcome = "false" => jobs[loc[w].job_id].status = "failed")
    /\ \A w \in Workers : (pc[w] = "proc_mark") ~> ProcessReturned(w)

\* A call that failed has returned false while the other thread is in the middle
\* of a call on a job.
C35_Witness ==
    \E w \in Workers :
        /\ ProcessReturned(w)
        /\ loc[w].outcome = "false"
        /\ jobs[loc[w].job_id].status = "failed"
        /\ \E v \in Workers \ {w} : pc[v] = "proc_mark"

(***************************************************************************)
(* Claims about the query caches.                                          *)
(***************************************************************************)
\* The greatest similarity of a stored row to vector v.
IsBest(rows, v, i) ==
    \A k \in 1..Len(rows) :
        Geq(cosine_similarity(v, rows[i].question_vector),
            cosine_similarity(v, rows[k].question_vector))

C9_ClearSerialized ==
    \A w \in Workers :
        (cpc[w] = "returned" /\ cloc[w].op \in {"add", "find"}) =>
            /\ ~cloc[w].collection_missing
            /\ cloc[w].op = "find" => cloc[w].outcome \in {"none", "match"}

\* C10: get_cache_stats never raises and its answer has total_entries and
\* collection_name, whichever client the constructor selected.  (SpecCache)
C10_StatsNeverRaises ==
    \A w \in Workers :
        (cpc[w] = "returned" /\ cloc[w].op = "stats") =>
            /\ cloc[w].outcome # "raised"
            /\ cloc[w].total_entries >= 0
            /\ cloc[w].collection_name = "sql_queries"

\* The entry the latest successful add_to_cache wrote.
LastEntry == store.entries[Len(store.entries)]

\* C13: cache round trip: after add_to_cache(q, sql, v), whatever the cache held
\* before, find_similar_question(v, threshold = 1.0) with the identical vector
\* returns (q, sql, score) with the score at the exact-match boundary.  (SpecCache)
C13_RoundTrip ==
    \A w \in Workers :
        (/\ cpc[w] = "returned" /\ cloc[w].op = "find"
         /\ ~cloc[w].collection_missing
         /\ cloc[w].threshold = <<1, 1>>
         /\ store.entries # << >>
         /\ cloc[w].vector = LastEntry.embedding) =>
            /\ cloc[w].outcome = "match"
            /\ cloc[w].result = [question |-> LastEntry.document,
                                 sql |-> LastEntry.sql_query, score |-> <<1, 1>>]

Ids(entries) == {entries[k].id : k \in 1..Len(entries)}

\* C14: every successful add_to_cache increases total_entries by exactly one and
\* returns a fresh id, also when an entry with the same question or vector
\* exists; the entries written earlier stay as they are, and entries disappear
\* only through clear_cache.  (SpecCache)
C14_AddGrowsByOne ==
    [][/\ \A w \in Workers :
            (cpc[w] = "add" /\ cpc'[w] = "returned" /\ cloc'[w].outcome = "doc_id") =>
                /\ Len(store'.entries) = Len(store.entries) + 1
                /\ SubSeq(store'.entries, 1, Len(store.entries)) = store.entries
                /\ cloc'[w].doc_id \notin Ids(store.entries)
                /\ store'.entries[Len(store'.entries)].id = cloc'[w].doc_id
       /\ (\E k \in 1..Len(store.entries) :
              k > Len(store'.entries) \/ store'.entries[k] # store.entries[k]) =>
                \E w \in Workers : cpc[w] = "idle" /\ cloc'[w].op = "clear"]_vars

\* An add that succeeded although the cache held the same question and vector.
C14_Witness ==
    \E w \in Workers :
        /\ cpc[w] = "returned" /\ cloc[w].op = "add" /\ cloc[w].outcome = "doc_id"
        /\ Len(store.entries) = 2
        /\ store.entries[1].embedding = store.entries[2].embedding
        /\ store.entries[1].document = store.entries[2].document
        /\ store.entries[2].id = cloc[w].doc_id

\* C15: a failure of the backing store during find_similar_question gives "no
\* match" (None) to the caller, never an exception.  (SpecCache)
C15_FindFailureIsNone ==
    \A w \in Workers :
        (cpc[w] = "returned" /\ cloc[w].op = "find" /\ cloc[w].collection_missing) =>
            /\ cloc[w].outcome = "none"
            /\ cloc[w].result = NoneResult

\* A lookup that reached the store after its collection was deleted.
C15_Witness ==
    \E w \in Workers :
        cpc[w] = "returned" /\ cloc[w].op = "find" /\ cloc[w].collection_missing

\* C16: an error of the backing store during add_to_cache reaches the caller as
\* a failure (the exception), and the call leaves the entries cached before it
\* as they were.  (SpecCache)
C16_AddFailureReported ==
    [][\A w \in Workers :
          (cpc[w] = "add" /\ cpc'[w] = "returned" /\ Missing(cloc[w].handle)) =>
              /\ cloc'[w].outcome = "raised"
              /\ store'.entries = store.entries]_vars

\* An add that reached the store after its collection was deleted, while the
\* store has entries again.
C16_Witness ==
    \E w \in Workers :
        /\ cpc[w] = "returned" /\ cloc[w].op = "add" /\ cloc[w].collection_missing
        /\ store.entries # << >>

\* C30: the client is chosen once, in the constructor: the server's client when
\* the connection test succeeds and the local persistent one only when it
\* fails; no later call changes it, a call that fails on the store included.
C30_BackendChosenOnce ==
    [][/\ backend = "http" <=> heartbeat = "ok"
       /\ backend = "persistent" <=> heartbeat = "failed"
       /\ backend' = backend
       /\ heartbeat' = heartbeat]_vars

\* A call on the server's client has failed, and the object still uses it.
C30_Witness ==
    /\ backend = "http"
    /\ \E w \in Workers :
          /\ cpc[w] = "returned"
          /\ cloc[w].op \in {"add", "find"}
          /\ cloc[w].collection_missing

\* C34: TextToSQLService.clear_cache returns true only if the collection was
\* destroyed and recreated; when ChromaCache.clear_cache returns false the
\* service reports false and the clear endpoint answers with an error.  (SpecCache)
C34_ClearFailureReported ==
    \A w \in Workers :
        (cpc[w] = "returned" /\ cloc[w].op = "clear") =>
            /\ cloc[w].success = "true" => cloc[w].outcome = "true"
            /\ cloc[w].outcome = "false" =>
                  (cloc[w].success = "false" /\ cloc[w].status_code >= 400)

(***************************************************************************)
(* Claims about the SQL validator (checked under SpecSql).                 *)
(***************************************************************************)
\* The leading keyword of a statement: its first token that is not a blank, a
\* comment or punctuation.  A statement with no such token has none.
Leads(statement, k) ==
    /\ ~IsWhitespace(statement[k])
    /\ statement[k].ttype \notin {"Comment.Single", "Punctuation"}
    /\ \A m \in 1..(k - 1) :
         IsWhitespace(statement[m])
             \/ statement[m].ttype \in {"Comment.Single", "Punctuation"}

EveryStatementLeadsWithSelect(sql) ==
    LET statements == parse_sql_statements(sql)
    IN  \A n \in 1..Len(statements) :
            \A k \in 1..Len(statements[n]) :
                Leads(statements[n], k) =>
                    /\ statements[n][k].ttype = "Keyword.DML"
                    /\ Upper(statements[n][k].value) = <<"S", "E", "L", "E", "C", "T">>

\* C3: with readonly the validator returns a non-empty text exactly when every
\* statement of the cleaned, syntactically valid input leads with SELECT; the
\* example is rejected with readonly and returned cleaned without it.
C3_ReadonlyIffSelect ==
    sql_out # NotCalled =>
        /\ readonly =>
             (sql_out # << >>
                 <=> /\ clean_sql_response(sql_in) # << >>
                     /\ validate_sql_syntax(clean_sql_response(sql_in))
                     /\ EveryStatementLeadsWithSelect(clean_sql_response(sql_in)))
        /\ sql_in = Example => (sql_out = << >>) = readonly

\* C22: for an SQL text that is empty or made of blanks only,
\* validate_and_clean_sql returns the empty string, with readonly and without.
C22_BlankGivesEmpty ==
    (sql_out # NotCalled /\ Strip(sql_in) = << >>) => sql_out = << >>

\* The validator was given a non-empty text of blanks, without readonly.
C22_Witness ==
    /\ sql_out = << >>
    /\ sql_in # << >>
    /\ Strip(sql_in) = << >>
    /\ ~readonly

\* C23: is_select_only(sql) is true exactly when every parsed statement's first
\* meaningful token, in upper case, starts with SELECT (true when there is no
\* statement, false as soon as one statement leads with another keyword, the
\* DDL keywords DROP, CREATE and ALTER included).
C23_SelectOnlyIffLeadsWithSelect ==
    sql_out # NotCalled =>
        (is_select_only(clean_sql_response(sql_in))
            <=> EveryStatementLeadsWithSelect(clean_sql_response(sql_in)))

\* A statement that is purely a comment: blanks and comments only.
PurelyComment(statement) ==
    \A k \in 1..Len(statement) :
        IsWhitespace(statement[k]) \/ statement[k].ttype = "Comment.Single"

\* C24: validate_sql_syntax is false for an empty text and when parsing yields
\* no statement; otherwise it is true exactly when every statement that is not
\* purely a comment contains one of SELECT, INSERT, UPDATE, DELETE, CREATE, DROP,
\* ALTER, in any letter case.
C24_SyntaxIffKeyword ==
    sql_out # NotCalled =>
        LET sql == clean_sql_response(sql_in)
            statements == parse_sql_statements(sql)
        IN  validate_sql_syntax(sql)
                <=> /\ Strip(sql) # << >>
                    /\ statements # << >>
                    /\ \A n \in 1..Len(statements) :
                          \/ PurelyComment(statements[n])
                          \/ \E keyword \in sql_keywords :
                                Contains(Upper(Text(statements[n])), keyword)

\* C25: for a text made of an optional surrounding code fence (optionally
\* tagged sql), then optionally one of the listed prefixes in any letter case,
\* then a body, clean_sql_response returns the body without the blanks around it.
C25_CleanReturnsBody ==
    sql_out # NotCalled =>
        \A k \in Wrappers, body \in Bodies :
            sql_in = Wrap(k, body) => clean_sql_response(sql_in) = Strip(body)

(***************************************************************************)
(* Claims about the text-to-SQL service (SpecAgent).                       *)
(***************************************************************************)
\* The entries a step adds to the cache.
Written == {k \in 1..Len(store'.entries) : k > Len(store.entries)}

\* C11: process_question caches a (question, SQL) pair only after the generated
\* SQL passed validate_and_clean_sql for the request's readonly mode: an entry it
\* writes holds the non-empty text the validator returned for the language
\* model's answer in that mode, and the validator does not reject that text.
C11_CachedOnlyValidated ==
    [][\A k \in Written :
          LET sql == store'.entries[k].sql_query
          IN  /\ sql # << >>
              /\ sql = Validate(areq'.raw_sql, areq'.readonly)
              /\ Validate(sql, areq'.readonly) # << >>]_vars

\* A request whose generated SQL was validated and then cached.
C11_Witness ==
    /\ areq.endpoint = "text_to_sql_and_execute"
    /\ aresp.is_valid /\ ~aresp.from_cache
    /\ store.entries # << >>
    /\ store.entries[Len(store.entries)].sql_query = aresp.sql_query
    /\ areq.raw_sql # aresp.sql_query

\* The texts validate_and_clean_sql rejects, among those target_db.run may get.
Rejected == {t[1] : t \in {u \in Validated : ~u[2] /\ u[3] = << >>}}

\* C12: target_db.run is never given a string that validate_and_clean_sql
\* rejects (returns the empty string for).
C12_RunOnlyValidated == db_run # NotCalled => db_run \notin Rejected

\* C31: in readonly mode process_question never returns a non-empty sql_query
\* that is not select-only, also when the answer comes from a cache entry that
\* an earlier request without readonly stored: the cached SQL is validated
\* again for the mode of the request.
C31_ReadonlyReturnsSelectOnly ==
    (areq.endpoint = "text_to_sql_and_execute" /\ areq.readonly) =>
        \/ aresp.sql_query = << >>
        \/ EveryStatementLeadsWithSelect(aresp.sql_query)

\* C38: after process_question(q, readonly) has returned valid SQL and cached it,
\* a later process_question with the same question vector and the same readonly
\* flag is answered from the cache and adds no cache entry, whatever requests
\* were processed before.  (The service has no step that clears the cache.)
C38_RepeatAnsweredFromCache ==
    [][(/\ areq'.endpoint = "text_to_sql_and_execute"
        /\ <<_generate_embedding(areq'.question), areq'.readonly>> \in answered)
       => (aresp'.from_cache /\ store'.entries = store.entries)]_vars

(***************************************************************************)
(* Claims about schema discovery (SpecDiscovery).                          *)
(***************************************************************************)
Analyzed == table_info # NoInfo

\* C26: _recommend_strategy maps the number of vectorizable columns to a
\* strategy: 0 to "none", 1 to "single_column", 2 or 3 to "concatenated",
\* 4 or more to "weighted_combination".
C26_StrategyByCount ==
    Analyzed =>
        table_info.recommended_strategy =
            CASE table_info.vectorizable_columns = 0 -> "none"
              [] table_info.vectorizable_columns = 1 -> "single_column"
              [] table_info.vectorizable_columns \in {2, 3} -> "concatenated"
              [] table_info.vectorizable_columns >= 4 -> "weighted_combination"

\* A table with three vectorizable columns was analyzed.
C26_Witness ==
    /\ Analyzed
    /\ table_info.vectorizable_columns = 3
    /\ table_info.recommended_strategy = "concatenated"

\* The score the first matching rule gives, in tenths.
FirstRuleScore(column) ==
    LET type == Lower(column.type)
        name == Lower(column.name)
        varchar == Contains(type, <<"v", "a", "r", "c", "h", "a", "r">>)
    IN  CASE Contains(type, <<"t", "e", "x", "t">>) -> 9
          [] OTHER ->
             CASE varchar /\ \E word \in {<<"d", "e", "s", "c", "r", "i", "p", "t", "i", "o", "n">>,
                                            <<"c", "o", "m", "m", "e", "n", "t">>,
                                            <<"c", "o", "n", "t", "e", "n", "t">>} :
                               Contains(name, word) -> 8
               [] OTHER ->
                  CASE varchar -> 5
                    [] OTHER -> IF Contains(type, <<"j", "s", "o", "n">>) THEN 7 ELSE 0

\* C27: _analyze_column gives potential_score by the first matching rule (type
\* contains text: 0.9; varchar with a name containing description, comment or
\* content: 0.8; other varchar: 0.5; json: 0.7; otherwise 0.0), vectorizable
\* exactly for a text-like column whose type contains text or varchar, and
\* recommended_for_embedding exactly when potential_score > 0.6.
C27_ColumnScore ==
    Analyzed =>
        \A i \in 1..Len(inspected.columns) :
            LET column == inspected.columns[i]
                info == table_info.columns[i]
                type == Lower(column.type)
            IN  /\ info.potential_score = FirstRuleScore(column)
                /\ info.vectorizable
                     <=> /\ info.is_text
                         /\ \/ Contains(type, <<"t", "e", "x", "t">>)
                            \/ Contains(type, <<"v", "a", "r", "c", "h", "a", "r">>)
                /\ info.recommended_for_embedding <=> info.potential_score > 6
                /\ type = <<"t", "e", "x", "t">> => info.potential_score = 9 /\ info.vectorizable
                /\ type = <<"i", "n", "t", "e", "g", "e", "r">>
                     => info.potential_score = 0 /\ ~info.vectorizable

\* The analyzed table has a column of each rule.
C27_Witness ==
    /\ Analyzed
    /\ {table_info.columns[i].potential_score : i \in 1..Len(table_info.columns)}
          = {9, 8, 5, 7}

\* C28: vectorization_potential is (textColumnRatio * 0.4 +
\* vectorizableColumnRatio * 0.6 + 0.2 per column scoring above 0.7) *
\* sizeFactor, clamped to [0, 1], where sizeFactor is 0.5 exactly when
\* 0 < estimated_rows < 100 and 1.0 otherwise; it lies in [0, 1] also for a
\* table without columns.  (Both sides in units of 1 / (200 * total_columns).)
C28_PotentialFormula ==
    Analyzed =>
        LET p == table_info.vectorization_potential
            n == table_info.total_columns
            above == Cardinality({i \in 1..n : table_info.columns[i].potential_score > 7})
            sizeFactor10 ==
                IF inspected.estimated_rows \in 1..99 THEN 5 ELSE 10
            unclamped ==
                (4 * table_info.text_columns + 6 * table_info.vectorizable_columns
                    + 2 * above * n) * sizeFactor10 * 2
        IN  /\ p.den > 0
            /\ 0 <= p.num /\ p.num <= p.den
            /\ n > 0 =>
                  p.num * 200 * n
                      = p.den * (IF unclamped > 200 * n THEN 200 * n ELSE unclamped)

\* A table of 99 rows whose potential is halved and not clamped.
C28_Witness ==
    /\ Analyzed
    /\ inspected.estimated_rows = 99
    /\ table_info.vectorization_potential.num > 0
    /\ table_info.vectorization_potential.num < table_info.vectorization_potential.den

\* auto_configure_table went past the analysis of the table.
Configuring == configured.outcome \in {"TypeError", "created"}

\* The strategy values that a branch of _generate_content compares with.
Recognised ==
    {VectorizationStrategy.SINGLE_COLUMN, VectorizationStrategy.CONCATENATED,
     VectorizationStrategy.WEIGHTED_COMBINATION}

\* C32: the strategy value that auto_configure_table gives to the TableConfig of
\* a table with at least one vectorizable column is one that _generate_content
\* recognises, so that the table is processed with the strategy recommended.
C32_StoredStrategyRecognised ==
    (Configuring /\ configured.table_info.vectorizable_columns >= 1) =>
        configured.passed.vectorization_strategy \in Recognised

ShouldVectorize(column_configs) ==
    Cardinality({i \in 1..Len(column_configs) : column_configs[i].should_vectorize})

\* C39: after auto_configure_table the number of ColumnConfig rows with
\* should_vectorize = true is the vectorizable-column count of the analysis the
\* strategy was chosen from, and a TableConfig stored with a strategy other than
\* "none" has at least one such row.
C39_ShouldVectorizeCount ==
    Configuring =>
        /\ ShouldVectorize(configured.column_configs)
               = configured.table_info.vectorizable_columns
        /\ (configured.outcome = "created"
               /\ configured.table_config.vectorization_strategy # "none") =>
                  ShouldVectorize(configured.column_configs) >= 1

(***************************************************************************)
(* Claims about the content generation of the pipeline.                    *)
(***************************************************************************)
\* C33: _generate_content returns for every value of the table's
\* vectorization_strategy, and for a value other than single_column,
\* concatenated and weighted it returns the concatenated content.
C33_GenerateContentReturns ==
    content_out # NoContent =>
        /\ content_out.raised = "none"
        /\ content_in.strategy \notin Recognised =>
              content_out = _generate_content(VectorizationStrategy.CONCATENATED,
                                              content_in.record, content_in.columns)

====
